---- MODULE Spec2Model ----
(***************************************************************************)
(* Auto Move by Frontmatter: the metadata accessor (frontmatterParser.ts),  *)
(* the rule evaluator and the move orchestrator (main.ts).                  *)
(*                                                                          *)
(* Strings are tuples of one-character strings, so that splitting, case     *)
(* folding, path normalisation and YAML formatting are computed character   *)
(* by character as the code computes them.  A text is a tuple of lines.     *)
(***************************************************************************)
EXTENDS Integers, Sequences, FiniteSets, TLC

VARIABLES
    files,      \* vault: the files, each with its path (TFile.path) and its text
    folders,    \* vault: the set of folder paths (TFolder.path), "/" is the root
    settings,   \* the plugin's settings: enabled, rules
    inv,        \* the autoMoveFile invocations: slot -> record (pc, file, locals)
    renames,    \* per file: how many renames the host has carried out
    notices,    \* the notices shown so far: <<invocation, kind>>
    scans,      \* the scanAllFiles / batchMoveFiles calls: slot -> record
    plugin,     \* the plugin's listeners and timers, and the host's pending events
    pin,        \* input of the pure function under check
    pout        \* its output

machine == <<files, folders, settings, inv, renames, notices, scans, plugin>>
vars == <<machine, pin, pout>>

-----------------------------------------------------------------------------
(* Strings *)

LowerLetters ==
    <<"a","b","c","d","e","f","g","h","i","j","k","l","m",
      "n","o","p","q","r","s","t","u","v","w","x","y","z">>
UpperLetters ==
    <<"A","B","C","D","E","F","G","H","I","J","K","L","M",
      "N","O","P","Q","R","S","T","U","V","W","X","Y","Z">>
Digits == <<"0","1","2","3","4","5","6","7","8","9">>

IsDigit(c) == \E i \in 1..10 : Digits[i] = c
DigitValue(c) == (CHOOSE i \in 1..10 : Digits[i] = c) - 1

\* String.prototype.toLowerCase, one character
LowerChar(c) ==
    IF \E i \in 1..26 : UpperLetters[i] = c
    THEN LowerLetters[CHOOSE i \in 1..26 : UpperLetters[i] = c]
    ELSE c

toLowerCase(s) == [i \in 1..Len(s) |-> LowerChar(s[i])]

\* s.startsWith(p), s.endsWith(p), s.includes(p)
startsWith(s, p) == Len(p) <= Len(s) /\ SubSeq(s, 1, Len(p)) = p
endsWith(s, p) == Len(p) <= Len(s) /\ SubSeq(s, Len(s) - Len(p) + 1, Len(s)) = p
includes(s, p) ==
    \E i \in 1..(Len(s) - Len(p) + 1) : SubSeq(s, i, i + Len(p) - 1) = p

\* the position of the first occurrence of character c in s, 0 when there is none
IndexOfChar(s, c) ==
    IF \E i \in 1..Len(s) : s[i] = c
    THEN CHOOSE i \in 1..Len(s) : s[i] = c /\ \A j \in 1..(i - 1) : s[j] # c
    ELSE 0

\* s.split(sep) for a one-character separator: always at least one part
RECURSIVE split(_, _)
split(s, sep) ==
    LET i == IndexOfChar(s, sep) IN
    IF i = 0 THEN <<s>>
    ELSE <<SubSeq(s, 1, i - 1)>> \o split(SubSeq(s, i + 1, Len(s)), sep)

\* parts.join(sep)
RECURSIVE join(_, _)
join(parts, sep) ==
    IF Len(parts) = 0 THEN <<>>
    ELSE IF Len(parts) = 1 THEN parts[1]
    ELSE parts[1] \o sep \o join(Tail(parts), sep)

\* parseInt(digits, 10) for a non-empty string of digits
RECURSIVE parseInt(_)
parseInt(d) ==
    IF Len(d) = 0 THEN 0
    ELSE 10 * parseInt(SubSeq(d, 1, Len(d) - 1)) + DigitValue(d[Len(d)])

\* String(n) for a natural number
RECURSIVE NumberToString(_)
NumberToString(n) ==
    IF n < 10 THEN <<Digits[n + 1]>>
    ELSE NumberToString(n \div 10) \o <<Digits[(n % 10) + 1]>>

-----------------------------------------------------------------------------
(* JavaScript values as tagged variants *)

Str(s) == [t |-> "str", s |-> s]
Num(n) == [t |-> "num", n |-> n]
Bool(b) == [t |-> "bool", b |-> b]
Null == [t |-> "null"]
Undefined == [t |-> "undefined"]
List(items) == [t |-> "list", items |-> items]
Map(entries) == [t |-> "map", entries |-> entries]
Entry(k, v) == [k |-> k, v |-> v]

\* FrontmatterParser.isRecord
isRecord(value) == value.t = "map"

\* Array.isArray
isArray(value) == value.t = "list"

\* key in record
hasKey(rec, key) == \E i \in 1..Len(rec.entries) : rec.entries[i].k = key

\* record[key]: undefined for a key the record does not hold
getKey(rec, key) ==
    IF hasKey(rec, key)
    THEN rec.entries[CHOOSE i \in 1..Len(rec.entries) : rec.entries[i].k = key].v
    ELSE Undefined

\* record[key] = value: an existing key keeps its position, a new one is appended
setKey(rec, key, value) ==
    IF hasKey(rec, key)
    THEN Map([i \in 1..Len(rec.entries) |->
                IF rec.entries[i].k = key THEN Entry(key, value) ELSE rec.entries[i]])
    ELSE Map(Append(rec.entries, Entry(key, value)))

ObjectObject ==
    <<"[","o","b","j","e","c","t"," ","O","b","j","e","c","t","]">>

\* String(value): arrays join their elements with ",", null and undefined
\* elements of an array give the empty string, a plain object "[object Object]"
RECURSIVE String(_)
String(value) ==
    CASE value.t = "str" -> value.s
      [] value.t = "num" -> NumberToString(value.n)
      [] value.t = "bool" -> IF value.b THEN <<"t","r","u","e">> ELSE <<"f","a","l","s","e">>
      [] value.t = "null" -> <<"n","u","l","l">>
      [] value.t = "undefined" -> <<"u","n","d","e","f","i","n","e","d">>
      [] value.t = "list" ->
            join([i \in 1..Len(value.items) |->
                    IF value.items[i].t \in {"null", "undefined"} THEN <<>>
                    ELSE String(value.items[i])], <<",">>)
      [] value.t = "map" -> ObjectObject

-----------------------------------------------------------------------------
(* FrontmatterParser.getFieldValue *)

\* part.match(/^(.+)\[(\d+)\]$/): the position of the "[" of the match, 0 when
\* the part does not match.  The digits hold no "[", so the bracket is the last
\* "[" of the part; the name before it is non-empty and so are the digits.
\* arrayMatch that takes every part for a plain key
arrayMatch_never(part) == 0

arrayMatch(part) ==
    IF /\ Len(part) >= 4
       /\ part[Len(part)] = "]"
       /\ \E b \in 2..(Len(part) - 2) :
            /\ part[b] = "["
            /\ \A j \in (b + 1)..(Len(part) - 1) : IsDigit(part[j])
    THEN CHOOSE b \in 2..(Len(part) - 2) :
            /\ part[b] = "["
            /\ \A j \in (b + 1)..(Len(part) - 1) : IsDigit(part[j])
    ELSE 0

\* the body of the for loop over the parts, from part i on
RECURSIVE getFieldValueLoop(_, _, _)
getFieldValueLoop(current, parts, i) ==
    IF i > Len(parts) THEN (IF current = Undefined THEN Null ELSE current)
    ELSE IF current = Null \/ current = Undefined THEN Null
    ELSE LET part == parts[i]
             b == arrayMatch(part)
         IN IF b # 0
            THEN LET fieldName == SubSeq(part, 1, b - 1)
                     index == parseInt(SubSeq(part, b + 1, Len(part) - 1))
                 IN IF ~isRecord(current) THEN Null
                    ELSE LET arr == getKey(current, fieldName) IN
                         IF isArray(arr)
                         THEN IF index < Len(arr.items)
                              THEN getFieldValueLoop(arr.items[index + 1], parts, i + 1)
                              ELSE Null
                         ELSE Null
            ELSE IF ~isRecord(current) THEN Null
                 ELSE getFieldValueLoop(getKey(current, part), parts, i + 1)

getFieldValue(frontmatter, fieldPath) ==
    IF frontmatter = Null \/ fieldPath = <<>> THEN Null
    ELSE getFieldValueLoop(frontmatter, split(fieldPath, "."), 1)

\* hasField
hasField(frontmatter, fieldPath) == getFieldValue(frontmatter, fieldPath) # Null

-----------------------------------------------------------------------------
(* parseYaml of the host, on the block-style subset the documents of the model  *)
(* and stringifyYaml use: "key: scalar", "key:" with a nested block, "- scalar" *)
(* and a bare "-" with a nested mapping.  A text is a tuple of lines.           *)

Throw == [t |-> "throw"]

\* the number of leading spaces of a line, and the line without them
Indent(line) ==
    IF \E i \in 1..Len(line) : line[i] # " "
    THEN (CHOOSE i \in 1..Len(line) : line[i] # " " /\ \A j \in 1..(i - 1) : line[j] = " ") - 1
    ELSE Len(line)
Body(line) == SubSeq(line, Indent(line) + 1, Len(line))

\* str.trim()
RECURSIVE trimEnd(_)
trimEnd(str) ==
    IF Len(str) > 0 /\ str[Len(str)] = " " THEN trimEnd(SubSeq(str, 1, Len(str) - 1)) ELSE str
trim(str) == trimEnd(Body(str))

\* the text between double quotes with \" read as "
RECURSIVE Unescape(_)
Unescape(str) ==
    IF Len(str) = 0 THEN <<>>
    ELSE IF Len(str) >= 2 /\ str[1] = "\\" /\ str[2] = "\""
         THEN <<"\"">> \o Unescape(SubSeq(str, 3, Len(str)))
         ELSE <<str[1]>> \o Unescape(Tail(str))

\* a double-quoted scalar ends at its first quote that no backslash precedes
ClosingQuote(str) ==
    LET closes(i) == str[i] = "\"" /\ str[i - 1] # "\\" IN
    IF \E i \in 2..Len(str) : closes(i)
    THEN CHOOSE i \in 2..Len(str) : closes(i) /\ \A j \in 2..(i - 1) : ~closes(j)
    ELSE 0

\* the value of a scalar: the core schema resolves empty text and null to null,
\* true and false to booleans, digits to a number; the rest is a string
ResolveScalar(text) ==
    LET str == trim(text) IN
    IF str = <<>> \/ str = <<"n","u","l","l">> \/ str = <<"~">> THEN Null
    ELSE IF str = <<"t","r","u","e">> THEN Bool(TRUE)
    ELSE IF str = <<"f","a","l","s","e">> THEN Bool(FALSE)
    ELSE IF \A i \in 1..Len(str) : IsDigit(str[i]) THEN Num(parseInt(str))
    ELSE IF str[1] = "\""
         THEN IF ClosingQuote(str) = Len(str)
              THEN Str(Unescape(SubSeq(str, 2, Len(str) - 1)))
              ELSE Throw
    ELSE Str(str)

\* a line of a sequence: "-" alone or "- " and the item
IsDashLine(line) ==
    LET b == Body(line) IN
    Len(b) >= 1 /\ b[1] = "-" /\ (Len(b) = 1 \/ b[2] = " ")

\* the position of the colon that ends the key of a mapping line: the first
\* colon that a space or the end of the line follows; 0 when there is none
KeyColon(b) ==
    LET ends(i) == b[i] = ":" /\ (i = Len(b) \/ b[i + 1] = " ") IN
    IF \E i \in 1..Len(b) : ends(i)
    THEN CHOOSE i \in 1..Len(b) : ends(i) /\ \A j \in 1..(i - 1) : ~ends(j)
    ELSE 0

\* the first line after lo, up to hi, that no longer belongs to the node that
\* starts at line lo with indentation n (hi + 1 when all of them belong to it)
NodeEnd(lines, lo, hi, n, dashBelongs) ==
    LET leaves(j) ==
            \/ Indent(lines[j]) < n
            \/ (Indent(lines[j]) = n /\ ~(dashBelongs /\ IsDashLine(lines[j])))
    IN IF \E j \in (lo + 1)..hi : leaves(j)
       THEN CHOOSE j \in (lo + 1)..hi : leaves(j) /\ \A k \in (lo + 1)..(j - 1) : ~leaves(k)
       ELSE hi + 1

RECURSIVE ParseNode(_, _, _)
RECURSIVE ParseMapping(_, _, _, _)
RECURSIVE ParseSequence(_, _, _, _)

\* lines lo..hi as one node
ParseNode(lines, lo, hi) ==
    IF lo > hi THEN Null
    ELSE IF IsDashLine(lines[lo]) THEN ParseSequence(lines, lo, hi, Indent(lines[lo]))
    ELSE ParseMapping(lines, lo, hi, Indent(lines[lo]))

\* lines lo..hi as the entries of a mapping at indentation n
ParseMapping(lines, lo, hi, n) ==
    IF lo > hi THEN Map(<<>>)
    ELSE LET b == Body(lines[lo])
             c == KeyColon(b)
             end == NodeEnd(lines, lo, hi, n, TRUE)
             inline == SubSeq(b, c + 1, Len(b))
             value == IF trim(inline) # <<>>
                      THEN (IF end > lo + 1 THEN Throw ELSE ResolveScalar(inline))
                      ELSE ParseNode(lines, lo + 1, end - 1)
             others == ParseMapping(lines, end, hi, n)
         IN IF Indent(lines[lo]) # n \/ c = 0 \/ IsDashLine(lines[lo]) THEN Throw
            ELSE IF value = Throw \/ others = Throw THEN Throw
            ELSE IF hasKey(others, SubSeq(b, 1, c - 1)) THEN Throw
            ELSE Map(<<Entry(SubSeq(b, 1, c - 1), value)>> \o others.entries)

\* lines lo..hi as the items of a sequence at indentation n
ParseSequence(lines, lo, hi, n) ==
    IF lo > hi THEN List(<<>>)
    ELSE LET b == Body(lines[lo])
             end == NodeEnd(lines, lo, hi, n, FALSE)
             inline == SubSeq(b, 2, Len(b))
             item == IF trim(inline) # <<>>
                     THEN (IF end > lo + 1 THEN Throw ELSE ResolveScalar(inline))
                     ELSE ParseNode(lines, lo + 1, end - 1)
             others == ParseSequence(lines, end, hi, n)
         IN IF Indent(lines[lo]) # n \/ ~IsDashLine(lines[lo]) THEN Throw
            ELSE IF item = Throw \/ others = Throw THEN Throw
            ELSE List(<<item>> \o others.items)

\* blank lines carry nothing
RECURSIVE DropBlank(_)
DropBlank(lines) ==
    IF Len(lines) = 0 THEN <<>>
    ELSE IF trim(lines[1]) = <<>> THEN DropBlank(Tail(lines))
    ELSE <<lines[1]>> \o DropBlank(Tail(lines))

\* parseYaml(text): a value, or Throw for a text that is no YAML
parseYaml(text) ==
    LET lines == DropBlank(text) IN
    IF Len(lines) = 0 THEN Null
    ELSE IF Len(lines) = 1 /\ ~IsDashLine(lines[1]) /\ KeyColon(Body(lines[1])) = 0
         THEN ResolveScalar(lines[1])
    ELSE ParseNode(lines, 1, Len(lines))

-----------------------------------------------------------------------------
(* FrontmatterParser.parse *)

Delimiter == <<"-","-","-">>

\* a line without the carriage return that ends it under CRLF
StripCR(line) ==
    IF Len(line) > 0 /\ line[Len(line)] = "\r" THEN SubSeq(line, 1, Len(line) - 1) ELSE line

\* content.match(/^---\r?\n([\s\S]*?)\r?\n---/): the line that closes the block,
\* the first from the third on that starts with "---"; 0 when nothing matches
frontmatterRegex(content) ==
    LET closes(k) == startsWith(content[k], Delimiter) IN
    IF /\ Len(content) >= 3
       /\ StripCR(content[1]) = Delimiter
       /\ \E k \in 3..Len(content) : closes(k)
    THEN CHOOSE k \in 3..Len(content) : closes(k) /\ \A j \in 3..(k - 1) : ~closes(j)
    ELSE 0

\* match[1]: the lines between the delimiters, the last without its "\r"
MatchGroup(content, k) ==
    [i \in 1..(k - 2) |-> IF i = k - 2 THEN StripCR(content[i + 1]) ELSE content[i + 1]]

\* !match[1]: the captured text is the empty string
MatchGroupEmpty(content, k) == k = 3 /\ StripCR(content[2]) = <<>>

parse(content) ==
    LET k == frontmatterRegex(content) IN
    IF k = 0 \/ MatchGroupEmpty(content, k) THEN Null
    ELSE LET parsed == parseYaml(MatchGroup(content, k)) IN
         IF parsed = Throw THEN Null
         ELSE IF isRecord(parsed) THEN parsed
         ELSE Null

-----------------------------------------------------------------------------
(* FrontmatterParser.stringifyYaml *)

\* "  ".repeat(indent)
indentStr(indent) == [i \in 1..(2 * indent) |-> " "]

\* value.replace(/"/g, '\\"')
RECURSIVE EscapeQuotes(_)
EscapeQuotes(str) ==
    IF Len(str) = 0 THEN <<>>
    ELSE (IF str[1] = "\"" THEN <<"\\", "\"">> ELSE <<str[1]>>) \o EscapeQuotes(Tail(str))

formatValue(value) ==
    IF value.t = "str"
    THEN IF \/ includes(value.s, <<":">>)
            \/ includes(value.s, <<"#">>)
            \/ includes(value.s, <<"\n">>)
            \/ startsWith(value.s, <<" ">>)
            \/ endsWith(value.s, <<" ">>)
         THEN <<"\"">> \o EscapeQuotes(value.s) \o <<"\"">>
         ELSE value.s
    ELSE String(value)

RECURSIVE stringifyYamlRecursive(_, _)
RECURSIVE stringifyEntries(_, _, _)
RECURSIVE stringifyItems(_, _, _)

\* the lines pushed for the items of an array, from item i on
stringifyItems(items, i, indent) ==
    IF i > Len(items) THEN <<>>
    ELSE (IF isRecord(items[i])
          THEN <<indentStr(indent) \o <<" "," ","-">> >>
               \o stringifyYamlRecursive(items[i], indent + 2)
          ELSE <<indentStr(indent) \o <<" "," ","-"," ">> \o formatValue(items[i])>>)
         \o stringifyItems(items, i + 1, indent)

\* the lines pushed for the entries of a record, from entry i on
stringifyEntries(entries, i, indent) ==
    IF i > Len(entries) THEN <<>>
    ELSE LET key == entries[i].k
             value == entries[i].v
         IN (IF value = Null \/ value = Undefined
             THEN <<indentStr(indent) \o key \o <<":"," ">> >>
             ELSE IF isRecord(value)
             THEN <<indentStr(indent) \o key \o <<":">> >>
                  \o stringifyYamlRecursive(value, indent + 1)
             ELSE IF isArray(value)
             THEN <<indentStr(indent) \o key \o <<":">> >>
                  \o stringifyItems(value.items, 1, indent)
             ELSE <<indentStr(indent) \o key \o <<":"," ">> \o formatValue(value)>>)
            \o stringifyEntries(entries, i + 1, indent)

stringifyYamlRecursive(obj, indent) ==
    IF ~isRecord(obj) THEN <<>> ELSE stringifyEntries(obj.entries, 1, indent)

\* lines.join("\n") + "\n", as the lines of the text before its last newline
stringifyYaml(obj) ==
    LET lines == stringifyYamlRecursive(obj, 0) IN
    IF Len(lines) = 0 THEN << <<>> >> ELSE lines

-----------------------------------------------------------------------------
(* FrontmatterParser.setFieldValue *)

\* the value at a chain of keys below a record
RECURSIVE GetAt(_, _)
GetAt(rec, keys) ==
    IF Len(keys) = 0 THEN rec ELSE GetAt(getKey(rec, Head(keys)), Tail(keys))

\* the record with the value at a chain of keys replaced
RECURSIVE SetAt(_, _, _)
SetAt(rec, keys, value) ==
    IF Len(keys) = 1 THEN setKey(rec, keys[1], value)
    ELSE setKey(rec, keys[1], SetAt(getKey(rec, keys[1]), Tail(keys), value))

\* `current` during the walk: a record inside the frontmatter (at a chain of
\* keys), an array inside the frontmatter, or a fresh object that nothing refers
\* to ("detached": what is assigned to it is lost)
AtRecord(keys) == [kind |-> "record", keys |-> keys]
AtArray == [kind |-> "array"]
AtDetached == [kind |-> "detached"]

\* the for loop over parts[0 .. n-2], from part i on: the frontmatter and
\* `current` after it
RECURSIVE setFieldValueWalk(_, _, _, _)
setFieldValueWalk(frontmatter, current, parts, i) ==
    IF i > Len(parts) - 1 THEN [frontmatter |-> frontmatter, current |-> current]
    ELSE IF current.kind # "record"
         \* current = {}; curRecord[part] = {}; current = curRecord[part]
         THEN setFieldValueWalk(frontmatter, AtDetached, parts, i + 1)
    ELSE LET part == parts[i]
             curRecord == GetAt(frontmatter, current.keys)
             old == getKey(curRecord, part)
             here == Append(current.keys, part)
         IN IF ~hasKey(curRecord, part) \/ old.t \notin {"map", "list"}
            THEN setFieldValueWalk(SetAt(frontmatter, here, Map(<<>>)),
                                   AtRecord(here), parts, i + 1)
            ELSE IF isArray(old)
            THEN setFieldValueWalk(frontmatter, AtArray, parts, i + 1)
            ELSE setFieldValueWalk(frontmatter, AtRecord(here), parts, i + 1)

\* the frontmatter after the walk and the assignment to the last key
setFieldValueAssign(frontmatter, fieldPath, value) ==
    LET parts == split(fieldPath, ".")
        w == setFieldValueWalk(frontmatter, AtRecord(<<>>), parts, 1)
        lastKey == parts[Len(parts)]
    IN IF w.current.kind = "array" THEN setKey(w.frontmatter, lastKey, value)
       ELSE IF w.current.kind = "detached" THEN w.frontmatter
       ELSE SetAt(w.frontmatter, Append(w.current.keys, lastKey), value)

\* content.substring(match[0].length), as lines: the rest of the closing line
\* and the lines after it
RestContent(content, k) ==
    <<SubSeq(content[k], 4, Len(content[k]))>> \o SubSeq(content, k + 1, Len(content))

setFieldValue(content, fieldPath, value) ==
    LET k == frontmatterRegex(content)
        matched == k # 0 /\ ~MatchGroupEmpty(content, k)
        parsed == parseYaml(MatchGroup(content, k))
        frontmatter == IF matched /\ isRecord(parsed) THEN parsed ELSE Map(<<>>)
        restContent == IF matched THEN RestContent(content, k) ELSE content
    IN IF matched /\ parsed = Throw THEN content
       ELSE <<Delimiter>>
            \o stringifyYaml(setFieldValueAssign(frontmatter, fieldPath, value))
            \o <<Delimiter>> \o restContent

-----------------------------------------------------------------------------
(* new RegExp(pattern, "i") and regex.test(str), for the patterns of the model: *)
(* literal characters, "." (any character), a leading "^", a trailing "$".      *)
(* The other metacharacters occur in the model's patterns only where they make  *)
(* the constructor throw a SyntaxError: an unclosed "(" or "[", and a           *)
(* quantifier with nothing to repeat.                                           *)

Count(s, c) == Cardinality({i \in 1..Len(s) : s[i] = c})

RegExpThrows(pattern) ==
    \/ Count(pattern, "(") # Count(pattern, ")")
    \/ Count(pattern, "[") # Count(pattern, "]")
    \/ (Len(pattern) > 0 /\ pattern[1] \in {"*", "+", "?"})

RegExpBody(pattern) ==
    LET a == IF startsWith(pattern, <<"^">>) THEN 2 ELSE 1
        z == IF endsWith(pattern, <<"$">>) THEN Len(pattern) - 1 ELSE Len(pattern)
    IN SubSeq(pattern, a, z)

\* regex.test(str) with the "i" flag
RegExpTest(pattern, str) ==
    LET body == RegExpBody(pattern)
        n == Len(body)
        starts == IF startsWith(pattern, <<"^">>) THEN {1} ELSE 1..(Len(str) + 1)
    IN \E i \in starts :
        /\ i + n - 1 <= Len(str)
        /\ \A j \in 1..n : body[j] = "." \/ LowerChar(body[j]) = LowerChar(str[i + j - 1])
        /\ (endsWith(pattern, <<"$">>) => i + n - 1 = Len(str))

-----------------------------------------------------------------------------
(* AutoMovePlugin: the rule evaluator *)

Condition(field, value, matchType) ==
    [field |-> field, value |-> value, matchType |-> matchType]

Rule(enabled, conditions, logicOperator, targetFolder, createFolderIfNotExist) ==
    [enabled |-> enabled, conditions |-> conditions, logicOperator |-> logicOperator,
     targetFolder |-> targetFolder, createFolderIfNotExist |-> createFolderIfNotExist]

\* matchesValue with the rule value compared in its original case
matchesValue_ruleCaseKept(fieldValue, ruleValue, matchType) ==
    LET fieldStr == toLowerCase(String(fieldValue))
        ruleStr == ruleValue
    IN CASE matchType = "exact" -> fieldStr = ruleStr
         [] matchType = "contains" -> includes(fieldStr, ruleStr)
         [] matchType = "regex" ->
                IF RegExpThrows(ruleValue) THEN FALSE
                ELSE RegExpTest(ruleValue, String(fieldValue))
         [] OTHER -> FALSE

matchesValue(fieldValue, ruleValue, matchType) ==
    LET fieldStr == toLowerCase(String(fieldValue))
        ruleStr == toLowerCase(ruleValue)
    IN CASE matchType = "exact" -> fieldStr = ruleStr
         [] matchType = "contains" -> includes(fieldStr, ruleStr)
         [] matchType = "regex" ->
                IF RegExpThrows(ruleValue) THEN FALSE
                ELSE RegExpTest(ruleValue, String(fieldValue))
         [] OTHER -> FALSE

\* evaluateCondition without the test for an absent field
evaluateCondition_noAbsentTest(condition, frontmatter) ==
    matchesValue(getFieldValue(frontmatter, condition.field),
                 condition.value, condition.matchType)

evaluateCondition(condition, frontmatter) ==
    LET fieldValue == getFieldValue(frontmatter, condition.field) IN
    IF fieldValue = Null \/ fieldValue = Undefined THEN FALSE
    ELSE matchesValue(fieldValue, condition.value, condition.matchType)

\* results.every((r) => r) and results.some((r) => r)
RECURSIVE every(_)
every(results) ==
    IF Len(results) = 0 THEN TRUE ELSE Head(results) /\ every(Tail(results))

RECURSIVE some(_)
some(results) ==
    IF Len(results) = 0 THEN FALSE ELSE Head(results) \/ some(Tail(results))

\* evaluateRule without the test for an empty condition list
evaluateRule_noEmptyTest(rule, frontmatter) ==
    LET results == [i \in 1..Len(rule.conditions) |->
                        evaluateCondition(rule.conditions[i], frontmatter)]
    IN IF rule.logicOperator = "AND" THEN every(results) ELSE some(results)

evaluateRule(rule, frontmatter) ==
    IF Len(rule.conditions) = 0 THEN FALSE
    ELSE LET results == [i \in 1..Len(rule.conditions) |->
                            evaluateCondition(rule.conditions[i], frontmatter)]
         IN IF rule.logicOperator = "AND" THEN every(results) ELSE some(results)

-----------------------------------------------------------------------------
(* The vault of the host: files with their paths, and the set of folder paths *)

Root == <<"/">>

NonEmpty(part) == Len(part) > 0

\* normalizePath of the host: runs of slashes and backslashes become one "/",
\* leading and trailing ones are dropped, the empty path is the root "/"
normalizePath(path) ==
    LET slashed == [i \in 1..Len(path) |-> IF path[i] = "\\" THEN "/" ELSE path[i]]
        parts == SelectSeq(split(slashed, "/"), NonEmpty)
    IN IF Len(parts) = 0 THEN Root ELSE join(parts, <<"/">>)

LastIndexOf(str, c) ==
    IF \E i \in 1..Len(str) : str[i] = c
    THEN CHOOSE i \in 1..Len(str) : str[i] = c /\ \A j \in (i + 1)..Len(str) : str[j] # c
    ELSE 0

\* TFile.name, TFile.basename, TFile.extension and TFile.parent.path of a path
fileName(path) == SubSeq(path, LastIndexOf(path, "/") + 1, Len(path))
fileBasename(path) ==
    LET name == fileName(path)
        k == LastIndexOf(name, ".")
    IN IF k = 0 THEN name ELSE SubSeq(name, 1, k - 1)
fileExtension(path) ==
    LET name == fileName(path)
        k == LastIndexOf(name, ".")
    IN IF k = 0 THEN <<>> ELSE SubSeq(name, k + 1, Len(name))
parentPath(path) ==
    LET k == LastIndexOf(path, "/") IN
    IF k = 0 THEN Root ELSE SubSeq(path, 1, k - 1)

\* vault.getAbstractFileByPath(path) in the vault (fs, fd): a folder, a file, or
\* nothing
getAbstractFileByPath(path, fs, fd) ==
    IF path \in fd THEN "folder"
    ELSE IF \E d \in 1..Len(fs) : fs[d].path = path THEN "file"
    ELSE "none"

-----------------------------------------------------------------------------
(* FileMover *)

\* the while loop of getUniqueFileName
RECURSIVE getUniqueFileNameLoop(_, _, _, _, _, _, _)
getUniqueFileNameLoop(folderPath, basename, extension, newName, counter, fs, fd) ==
    IF getAbstractFileByPath(normalizePath(folderPath \o <<"/">> \o newName), fs, fd) # "none"
    THEN getUniqueFileNameLoop(folderPath, basename, extension,
            basename \o <<" ">> \o NumberToString(counter) \o <<".">> \o extension,
            counter + 1, fs, fd)
    ELSE newName

\* getUniqueFileName that tries the counter 1 and does not look again
getUniqueFileName_once(folderPath, basename, extension, fs, fd) ==
    IF getAbstractFileByPath(
          normalizePath(folderPath \o <<"/">> \o basename \o <<".">> \o extension), fs, fd) # "none"
    THEN basename \o <<" ","1",".">> \o extension
    ELSE basename \o <<".">> \o extension

getUniqueFileName(folderPath, basename, extension, fs, fd) ==
    getUniqueFileNameLoop(folderPath, basename, extension,
                          basename \o <<".">> \o extension, 1, fs, fd)

\* folderPath.split("/").filter((p) => p.length > 0)
folderParts(folderPath) == SelectSeq(split(folderPath, "/"), NonEmpty)

\* the path createFolder builds for the first p parts
currentPath(parts, p) == join(SubSeq(parts, 1, p), <<"/">>)

\* createFolder that takes any existing prefix for a folder
RECURSIVE createFolder_noTypeTest(_, _, _, _)
createFolder_noTypeTest(parts, p, fs, fd) ==
    IF p > Len(parts) THEN [kind |-> "return"]
    ELSE IF getAbstractFileByPath(currentPath(parts, p), fs, fd) = "none"
    THEN [kind |-> "await", part |-> p]
    ELSE createFolder_noTypeTest(parts, p + 1, fs, fd)

\* the for loop of createFolder from part p on, up to its next await: it awaits
\* vault.createFolder for the first prefix that does not exist, throws at a
\* prefix that is no folder, and returns after the last part
RECURSIVE createFolder(_, _, _, _)
createFolder(parts, p, fs, fd) ==
    IF p > Len(parts) THEN [kind |-> "return"]
    ELSE LET folder == getAbstractFileByPath(currentPath(parts, p), fs, fd) IN
         IF folder = "none" THEN [kind |-> "await", part |-> p]
         ELSE IF folder # "folder" THEN [kind |-> "throw"]
         ELSE createFolder(parts, p + 1, fs, fd)

\* moveFile from "Ensure target is a folder" to the call of renameFile
moveFileRename(path, targetFolderPath, fs, fd) ==
    IF getAbstractFileByPath(targetFolderPath, fs, fd) # "folder"
    THEN [kind |-> "notFolder"]
    ELSE LET newPath == normalizePath(targetFolderPath \o <<"/">> \o fileName(path)) IN
         IF getAbstractFileByPath(newPath, fs, fd) # "none"
         THEN [kind |-> "rename",
               to |-> normalizePath(targetFolderPath \o <<"/">> \o
                        getUniqueFileName(targetFolderPath, fileBasename(path),
                                          fileExtension(path), fs, fd))]
         ELSE [kind |-> "rename", to |-> newPath]

\* moveFile after createFolder has returned: the folder is looked up again
moveFileCreated(path, targetFolderPath, fs, fd) ==
    IF getAbstractFileByPath(targetFolderPath, fs, fd) = "none"
    THEN [kind |-> "failedCreate"]
    ELSE moveFileRename(path, targetFolderPath, fs, fd)

\* createFolder from part p on, and moveFile after it when it returns
moveFileCreate(path, targetFolderPath, p, fs, fd) ==
    LET c == createFolder(folderParts(targetFolderPath), p, fs, fd) IN
    IF c.kind = "await" THEN [kind |-> "create", part |-> c.part]
    ELSE IF c.kind = "throw" THEN [kind |-> "caught"]
    ELSE moveFileCreated(path, targetFolderPath, fs, fd)

\* moveFile that creates the missing folder whatever createIfNotExist says
moveFile_alwaysCreate(path, targetFolderPath, createIfNotExist, fs, fd) ==
    IF getAbstractFileByPath(targetFolderPath, fs, fd) = "none"
    THEN moveFileCreate(path, targetFolderPath, 1, fs, fd)
    ELSE moveFileRename(path, targetFolderPath, fs, fd)

\* moveFile from its start to its first await or return; targetFolderPath is
\* already normalised
moveFile(path, targetFolderPath, createIfNotExist, fs, fd) ==
    IF getAbstractFileByPath(targetFolderPath, fs, fd) = "none"
    THEN IF createIfNotExist
         THEN moveFileCreate(path, targetFolderPath, 1, fs, fd)
         ELSE [kind |-> "missing"]
    ELSE moveFileRename(path, targetFolderPath, fs, fd)

-----------------------------------------------------------------------------
(* AutoMovePlugin.autoMoveFile *)

\* rule.targetFolder.replace(/\/$/, "")
stripSlash(targetFolder) ==
    IF Len(targetFolder) > 0 /\ targetFolder[Len(targetFolder)] = "/"
    THEN SubSeq(targetFolder, 1, Len(targetFolder) - 1)
    ELSE targetFolder

\* the for loop over settings.rules from rule k on: the rule it stops at (0 when
\* it runs to the end), and whether the file already is in that rule's folder
RECURSIVE autoMoveFileRules_tryNext(_, _, _, _)
autoMoveFileRules_tryNext(rs, k, frontmatter, currentFolder) ==
    IF k > Len(rs) THEN [rule |-> 0, skip |-> FALSE]
    ELSE IF ~rs[k].enabled THEN autoMoveFileRules_tryNext(rs, k + 1, frontmatter, currentFolder)
    ELSE IF evaluateRule(rs[k], frontmatter)
         THEN IF currentFolder = stripSlash(rs[k].targetFolder)
              THEN autoMoveFileRules_tryNext(rs, k + 1, frontmatter, currentFolder)
              ELSE [rule |-> k, skip |-> FALSE]
    ELSE autoMoveFileRules_tryNext(rs, k + 1, frontmatter, currentFolder)

RECURSIVE autoMoveFileRules(_, _, _, _)
autoMoveFileRules(rs, k, frontmatter, currentFolder) ==
    IF k > Len(rs) THEN [rule |-> 0, skip |-> FALSE]
    ELSE IF ~rs[k].enabled THEN autoMoveFileRules(rs, k + 1, frontmatter, currentFolder)
    ELSE IF evaluateRule(rs[k], frontmatter)
         THEN [rule |-> k, skip |-> currentFolder = stripSlash(rs[k].targetFolder)]
    ELSE autoMoveFileRules(rs, k + 1, frontmatter, currentFolder)

MaxInvocations == 2     \* autoMoveFile invocations in one behaviour

Slots == 1..MaxInvocations

\* an invocation: where it is (pc), its arguments (file, silent), what the vault
\* was like when it was called (from: the file's path, prior: the renames the
\* file had had, busy: another invocation on the file was under way), and its
\* locals: the rule the loop stopped at, the normalised target folder, the part
\* createFolder is at, the path of the host call it awaits, the renameFile calls
\* it has made, what it returned, and whether it caught an error
Idle ==
    [pc |-> "idle", file |-> 0, silent |-> FALSE, from |-> <<>>, busy |-> FALSE,
     prior |-> 0, rule |-> 0, target |-> <<>>, part |-> 0, pending |-> <<>>, issued |-> 0,
     result |-> "none", error |-> FALSE]

InFlight(r) == r.pc \in {"reading", "creating", "renaming"}

\* an invocation returns
Return(r, moved) ==
    [r EXCEPT !.pc = "done", !.result = IF moved THEN "moved" ELSE "notMoved",
              !.pending = <<>>, !.part = 0]

\* moveFile that returns true when it gives up or catches an error
Proceed_failureReturnsTrue(r, step) ==
    CASE step.kind = "create" ->
            [r EXCEPT !.pc = "creating", !.part = step.part,
                      !.pending = currentPath(folderParts(r.target), step.part)]
      [] step.kind = "rename" ->
            [r EXCEPT !.pc = "renaming", !.part = 0, !.pending = step.to,
                      !.issued = r.issued + 1]
      [] step.kind = "caught" -> [Return(r, TRUE) EXCEPT !.error = TRUE]
      [] OTHER -> Return(r, TRUE)

\* the invocation after moveFile went as far as `step`: suspended at an await
\* of moveFile, or returned with false
Proceed(r, step) ==
    CASE step.kind = "create" ->
            [r EXCEPT !.pc = "creating", !.part = step.part,
                      !.pending = currentPath(folderParts(r.target), step.part)]
      [] step.kind = "rename" ->
            [r EXCEPT !.pc = "renaming", !.part = 0, !.pending = step.to,
                      !.issued = r.issued + 1]
      [] step.kind = "caught" -> [Return(r, FALSE) EXCEPT !.error = TRUE]
      [] OTHER -> Return(r, FALSE)

\* the notices moveFile shows on the way to `step`
StepNotices(i, step) ==
    CASE step.kind = "caught" -> {<<i, "Error moving file">>}
      [] step.kind = "missing" -> {<<i, "Target folder does not exist">>}
      [] step.kind = "notFolder" -> {<<i, "Target is not a folder">>}
      [] OTHER -> {}

IsMarkdown(path) == fileExtension(path) = <<"m","d">>

\* autoMoveFile(file, silent) from its call to the await of vault.read, or to
\* its return when the plugin is disabled or has no rule
autoMoveFileCall(d, silent, iv, fs, rn) ==
    LET r == [Idle EXCEPT !.file = d, !.silent = silent,
                          !.from = fs[d].path,
                          !.prior = rn[d],
                          !.busy = \E j \in Slots : iv[j].file = d /\ InFlight(iv[j])]
    IN IF ~settings.enabled \/ Len(settings.rules) = 0
       THEN Return(r, FALSE)
       ELSE [r EXCEPT !.pc = "reading"]

\* a scanAllFiles or batchMoveFiles call: the files it goes through (list), the
\* position of the file whose move it awaits (k), movedCount, and for
\* batchMoveFiles the target folder and createIfNotExist.  What started it
\* (trigger), the files it has called the move for (attempted) and what the
\* moves returned (returned) are kept for the properties.  The call in slot i
\* awaits the invocation in slot i.
NoScan ==
    [pc |-> "idle", kind |-> "none", trigger |-> "none", list |-> <<>>, k |-> 0,
     movedCount |-> 0, target |-> <<>>, create |-> FALSE,
     attempted |-> <<>>, returned |-> <<>>]

\* the call the loop makes for the file at position k: autoMoveFile(file, true)
\* in scanAllFiles, moveFile(file, targetFolderPath, createIfNotExist) in
\* batchMoveFiles, up to its first await or its return
scanCall(i, sc, nt, iv, fs, fd, rn) ==
    LET d == sc.list[sc.k] IN
    IF sc.kind = "scan"
    THEN [inv |-> autoMoveFileCall(d, TRUE, iv, fs, rn), notices |-> nt]
    ELSE LET r == [Idle EXCEPT !.file = d, !.from = fs[d].path, !.prior = rn[d],
                               !.busy = \E j \in Slots : iv[j].file = d /\ InFlight(iv[j]),
                               !.target = normalizePath(sc.target)]
             step == moveFile(fs[d].path, r.target, sc.create, fs, fd)
         IN [inv |-> Proceed(r, step), notices |-> nt \cup StepNotices(i, step)]

RECURSIVE scanLoop(_, _, _, _, _, _, _)

\* the loop that stops after the first file whose move returns false
scanCalled_stopAtFailure(i, sc, call, iv, fs, fd, rn) ==
    IF call.inv.pc = "done"
    THEN scanLoop(i,
            [sc EXCEPT !.attempted = Append(@, sc.list[sc.k]),
                       !.returned = Append(@, call.inv.result = "moved"),
                       !.movedCount = @ + (IF call.inv.result = "moved" THEN 1 ELSE 0),
                       !.k = IF call.inv.result = "moved" THEN @ + 1 ELSE Len(sc.list) + 1],
            call.notices, [iv EXCEPT ![i] = call.inv], fs, fd, rn)
    ELSE [scan |-> [sc EXCEPT !.attempted = Append(@, sc.list[sc.k])],
          inv |-> call.inv, notices |-> call.notices]

\* the loop after its call for the file at position k went as far as `call`: a
\* move that returned without awaiting the host is counted and the loop goes
\* on; otherwise the loop awaits it
scanCalled(i, sc, call, iv, fs, fd, rn) ==
    IF call.inv.pc = "done"
    THEN scanLoop(i,
            [sc EXCEPT !.attempted = Append(@, sc.list[sc.k]),
                       !.returned = Append(@, call.inv.result = "moved"),
                       !.movedCount = @ + (IF call.inv.result = "moved" THEN 1 ELSE 0),
                       !.k = @ + 1],
            call.notices, [iv EXCEPT ![i] = call.inv], fs, fd, rn)
    ELSE [scan |-> [sc EXCEPT !.attempted = Append(@, sc.list[sc.k])],
          inv |-> call.inv, notices |-> call.notices]

\* the for loop of scanAllFiles / batchMoveFiles from position k on, up to its
\* next await that does not resolve at once; after the last file scanAllFiles
\* shows "Scan complete"
scanLoop(i, sc, nt, iv, fs, fd, rn) ==
    IF sc.k > Len(sc.list)
    THEN [scan |-> [sc EXCEPT !.pc = "done"], inv |-> iv[i],
          notices |-> nt \cup (IF sc.kind = "scan" THEN {<<i, "Scan complete">>} ELSE {})]
    ELSE scanCalled(i, sc, scanCall(i, sc, nt, iv, fs, fd, rn), iv, fs, fd, rn)

\* the awaited move of slot i has returned r: the loop counts it and goes on
scanResume(i, sc, r, nt, iv, fs, fd, rn) ==
    scanLoop(i,
        [sc EXCEPT !.returned = Append(@, r.result = "moved"),
                   !.movedCount = @ + (IF r.result = "moved" THEN 1 ELSE 0),
                   !.k = @ + 1],
        nt, [iv EXCEPT ![i] = r], fs, fd, rn)

\* slot i has been used by no invocation and no scan; the slots are taken in order
SlotFree(i) == inv[i].pc = "idle" /\ scans[i].pc = "idle"
NextFree(i) == SlotFree(i) /\ \A j \in 1..(i - 1) : ~SlotFree(j)

\* vault.getMarkdownFiles()
getMarkdownFiles(fs) == SelectSeq([d \in 1..Len(fs) |-> d], LAMBDA d : IsMarkdown(fs[d].path))

\* scanAllFiles(), started by the interval timer or by the command: it lists the
\* markdown files, shows "Scanning" and runs its loop to the first await
scanAllFiles(i, trigger) ==
    /\ NextFree(i)
    /\ LET sc == [NoScan EXCEPT !.pc = "running", !.kind = "scan", !.trigger = trigger,
                                !.list = getMarkdownFiles(files), !.k = 1]
           out == scanLoop(i, sc, notices \cup {<<i, "Scanning">>}, inv,
                           files, folders, renames)
       IN /\ inv' = [inv EXCEPT ![i] = out.inv]
          /\ notices' = out.notices
          /\ scans' = [scans EXCEPT ![i] = out.scan]
    /\ UNCHANGED <<files, folders, settings, renames, plugin, pin, pout>>

\* batchMoveFiles(files, targetFolderPath, createIfNotExist) is called and runs
\* its loop to the first await
batchMoveFiles(i, list, targetFolderPath, createIfNotExist) ==
    /\ NextFree(i)
    /\ LET sc == [NoScan EXCEPT !.pc = "running", !.kind = "batch", !.trigger = "call",
                                !.list = list, !.k = 1,
                                !.target = targetFolderPath, !.create = createIfNotExist]
           out == scanLoop(i, sc, notices, inv, files, folders, renames)
       IN /\ inv' = [inv EXCEPT ![i] = out.inv]
          /\ notices' = out.notices
          /\ scans' = [scans EXCEPT ![i] = out.scan]
    /\ UNCHANGED <<files, folders, settings, renames, plugin, pin, pout>>

\* invocation i has come to r, with the vault as given: when it has returned
\* to a scanAllFiles / batchMoveFiles loop, the loop goes on in the same step
Settle(i, r, nt, fs, fd, rn) ==
    IF r.pc = "done" /\ scans[i].pc = "running"
    THEN LET out == scanResume(i, scans[i], r, nt, inv, fs, fd, rn)
         IN /\ inv' = [inv EXCEPT ![i] = out.inv]
            /\ notices' = out.notices
            /\ scans' = [scans EXCEPT ![i] = out.scan]
    ELSE /\ inv' = [inv EXCEPT ![i] = r]
         /\ notices' = nt
         /\ UNCHANGED scans

\* a trigger (save, file switch, command, scan) calls autoMoveFile(file, silent):
\* the settings are tested and vault.read is awaited.  The invocations take
\* the slots in the order in which they start.
Start(i, d, silent) ==
    /\ NextFree(i)
    /\ IsMarkdown(files[d].path)
    /\ inv' = [inv EXCEPT ![i] = autoMoveFileCall(d, silent, inv, files, renames)]
    /\ UNCHANGED <<files, folders, settings, renames, notices, scans, plugin, pin, pout>>

\* vault.read resolves: the metadata is parsed, the rules are walked, and
\* moveFile runs to its first await
AfterRead(i) ==
    /\ inv[i].pc = "reading"
    /\ \E frontmatter \in {parse(files[inv[i].file].content)} :
        LET r == inv[i]
            file == files[r.file]
            sel == autoMoveFileRules(settings.rules, 1, frontmatter, parentPath(file.path))
            rule == settings.rules[sel.rule]
            targetFolder == stripSlash(rule.targetFolder)
            chosen == [r EXCEPT !.rule = sel.rule, !.target = normalizePath(targetFolder)]
            step == moveFile(file.path, chosen.target, rule.createFolderIfNotExist,
                             files, folders)
        IN IF frontmatter = Null \/ sel.rule = 0
           THEN Settle(i, Return(r, FALSE), notices, files, folders, renames)
           ELSE IF sel.skip
           THEN Settle(i, Return([r EXCEPT !.rule = sel.rule], FALSE), notices,
                       files, folders, renames)
           ELSE Settle(i, Proceed(chosen, step), notices \cup StepNotices(i, step),
                       files, folders, renames)
    /\ UNCHANGED <<files, folders, settings, renames, plugin, pin, pout>>

\* vault.createFolder resolves: the host creates the folder, or throws when the
\* path exists by now; createFolder goes on with the next part
CreateDone(i) ==
    /\ inv[i].pc = "creating"
    /\ LET r == inv[i]
           exists == getAbstractFileByPath(r.pending, files, folders) # "none"
           fd == folders \cup {r.pending}
           step == IF exists THEN [kind |-> "caught"]
                   ELSE moveFileCreate(files[r.file].path, r.target, r.part + 1, files, fd)
       IN /\ folders' = IF exists THEN folders ELSE fd
          /\ Settle(i, Proceed(r, step), notices \cup StepNotices(i, step),
                    files, folders', renames)
    /\ UNCHANGED <<files, settings, renames, plugin, pin, pout>>

\* fileManager.renameFile resolves.  The host moves the file, or throws when the
\* destination is taken; when the file itself is at the destination by now, the
\* host either does nothing or throws (sameOk chooses).  moveFile returns true
\* or catches the error, and autoMoveFile shows its notice.
RenameDone(i, sameOk) ==
    /\ inv[i].pc = "renaming"
    /\ LET r == inv[i]
           same == files[r.file].path = r.pending
           taken == ~same /\ getAbstractFileByPath(r.pending, files, folders) # "none"
           throws == taken \/ (same /\ ~sameOk)
       IN /\ files' = IF throws \/ same THEN files
                      ELSE [files EXCEPT ![r.file].path = r.pending]
          /\ renames' = IF throws \/ same THEN renames
                        ELSE [renames EXCEPT ![r.file] = @ + 1]
          /\ Settle(i,
                    IF throws THEN [Return(r, FALSE) EXCEPT !.error = TRUE]
                    ELSE Return(r, TRUE),
                    notices \cup
                        (IF throws THEN {<<i, "Error moving file">>}
                         ELSE IF ~r.silent /\ r.rule # 0 THEN {<<i, "Moved">>} ELSE {}),
                    files', folders, renames')
    /\ UNCHANGED <<folders, settings, plugin, pin, pout>>

-----------------------------------------------------------------------------
(* Bounds and inputs of the pure-function specifications *)

MaxStrLen == 3          \* generated field and rule values: at most this long
MaxPathLen == 2         \* generated field paths: at most this many segments
MaxIndex == 1           \* generated indexed segments: name[0] .. name[MaxIndex]

\* all strings over alphabet of length at most n
RECURSIVE StringsUpTo(_, _)
StringsUpTo(alphabet, n) ==
    IF n = 0 THEN {<<>>}
    ELSE LET shorter == StringsUpTo(alphabet, n - 1) IN
         shorter \cup {Append(s, c) : s \in shorter, c \in alphabet}

GeneratedStrings == StringsUpTo({"a", "A", "b"}, MaxStrLen)

s_daily == <<"d","a","i","l","y">>
s_Daily == <<"D","a","i","l","y">>
s_meeting == <<"m","e","e","t","i","n","g">>
s_project == <<"p","r","o","j","e","c","t">>
s_type == <<"t","y","p","e">>
s_tags == <<"t","a","g","s">>
s_meta == <<"m","e","t","a">>
s_cat == <<"c","a","t">>
s_zz == <<"z","z">>
s_true == <<"t","r","u","e">>
s_null == <<"n","u","l","l">>

MatchTypes == {"exact", "contains", "regex"}

\* field values as the YAML parser hands them over
SampleFieldValues ==
    { Str(s_daily), Str(s_Daily), Str(<<>>),
      List(<<Str(s_meeting), Str(s_project)>>), List(<<Str(s_meeting)>>), List(<<>>),
      List(<<Str(<<"a">>), Null, Str(<<"A","b">>)>>),
      Num(12), Num(0), Bool(TRUE), Bool(FALSE),
      Map(<<Entry(s_cat, Str(<<"a">>))>>) }

SampleRuleValues ==
    { s_daily, s_Daily, s_meeting, s_project, s_true, <<"1","2">>,
      <<"^","d",".","i","l","y","$">>, <<"^","$">>, <<"^","m","e","e","t","i","n","g","$">>,
      <<"^","A",".">>, <<"B","$">>, <<"(">>, <<"[","a">>, <<"*","a">>, <<"o","b","j","e","c","t">> }

MatchInputs ==
    [fieldValue : SampleFieldValues \cup {Str(s) : s \in GeneratedStrings},
     ruleValue : SampleRuleValues \cup GeneratedStrings,
     matchType : MatchTypes]
\* the plugin and the host's timers and listeners.  loaded: between onload and
\* onunload.  onModify, onFileOpen: the listener registerEventListeners
\* registered is attached.  intervalId: this.intervalId (0 for null).  timers:
\* the window intervals that are set.  saving: the saveSettings calls that
\* await saveData.  debounced: the timer of autoMoveDebounced and the file of
\* its latest call.  opened: the files whose file-open timeout is pending.
\* toggles counts the changes made in the settings tab, and modified holds the
\* documents that got a modify event and for which no autoMoveFile has started
\* since; both are kept for the bounds and the properties.
PluginOff ==
    [loaded |-> TRUE, onModify |-> FALSE, onFileOpen |-> FALSE,
     intervalId |-> 0, timers |-> {}, saving |-> 0,
     debounced |-> [armed |-> FALSE, file |-> 0], opened |-> {},
     toggles |-> 0, modified |-> {}]

\* the machine of the move orchestrator stands still in the pure specifications
MachineAtRest ==
    /\ files = <<>>
    /\ folders = {}
    /\ settings = <<>>
    /\ inv = <<>>
    /\ renames = <<>>
    /\ notices = <<>>
    /\ scans = <<>>
    /\ plugin = <<>>

NotRun == [done |-> FALSE]

(* matchesValue applied to one input *)
InitMatch ==
    /\ MachineAtRest
    /\ pin \in MatchInputs
    /\ pout = NotRun

ApplyMatchesValue ==
    /\ ~pout.done
    /\ pout' = [done |-> TRUE,
                result |-> matchesValue(pin.fieldValue, pin.ruleValue, pin.matchType)]
    /\ UNCHANGED <<machine, pin>>

SpecMatch == InitMatch /\ [][ApplyMatchesValue]_vars

-----------------------------------------------------------------------------
(* evaluateRule applied to one rule and one metadata document *)

MaxConds == 2           \* generated rules: at most this many conditions

fm_daily ==
    Map(<<Entry(s_type, Str(s_daily)),
          Entry(s_tags, List(<<Str(s_meeting), Str(s_project)>>)),
          Entry(s_meta, Map(<<Entry(s_cat, Str(<<"a">>)), Entry(<<"n">>, Null)>>))>>)
fm_Daily ==
    Map(<<Entry(s_type, Str(s_Daily)), Entry(s_tags, List(<<Str(s_meeting)>>))>>)
fm_num ==
    Map(<<Entry(s_type, Num(12)), Entry(s_meta, Str(s_null))>>)

SampleFrontmatters == {fm_daily, fm_Daily, fm_num}

\* conditions that hold of some sample documents and fail of others
CombinedConditions ==
    { Condition(s_type, s_daily, "exact"),
      Condition(s_tags, s_project, "contains"),
      Condition(s_meta \o <<".">> \o s_cat, <<"^","a","$">>, "regex"),
      Condition(s_zz, <<>>, "contains"),
      Condition(s_type, <<"1">>, "contains") }

\* field paths that are present in some sample document and absent in others
SampleFields ==
    { s_type, s_tags, s_zz,
      s_tags \o <<"[","0","]">>, s_tags \o <<"[","1","]">>, s_tags \o <<"[","5","]">>,
      s_meta, s_meta \o <<".">> \o s_cat, s_meta \o <<".","n">>,
      s_type \o <<".","x">>, s_tags \o <<".","x">>, <<>> }

SingleConditions ==
    { Condition(f, v, k) :
        f \in SampleFields,
        v \in {<<>>, s_daily, s_null, s_meeting, <<"^","$">>, <<".">>,
               <<"u","n","d","e","f","i","n","e","d">>},
        k \in MatchTypes }

RECURSIVE SeqsUpTo(_, _)
SeqsUpTo(S, n) ==
    IF n = 0 THEN {<<>>}
    ELSE LET shorter == SeqsUpTo(S, n - 1) IN
         shorter \cup {Append(q, x) : q \in shorter, x \in S}

RuleInputs ==
    [rule : { Rule(TRUE, cs, op, <<"a">>, TRUE) :
                cs \in SeqsUpTo(CombinedConditions, MaxConds)
                       \cup {<<c>> : c \in SingleConditions},
                op \in {"AND", "OR"} },
     frontmatter : SampleFrontmatters]

InitRule ==
    /\ MachineAtRest
    /\ pin \in RuleInputs
    /\ pout = NotRun

ApplyEvaluateRule ==
    /\ ~pout.done
    /\ pout' = [done |-> TRUE,
                result |-> evaluateRule(pin.rule, pin.frontmatter),
                results |-> [i \in 1..Len(pin.rule.conditions) |->
                                evaluateCondition(pin.rule.conditions[i], pin.frontmatter)]]
    /\ UNCHANGED <<machine, pin>>

SpecRule == InitRule /\ [][ApplyEvaluateRule]_vars

-----------------------------------------------------------------------------
(* getFieldValue applied to one metadata document and one field path *)

\* a path segment: a key, and an index or -1 for a plain segment
Segment(name, index) == [name |-> name, index |-> index]

SegmentNames == {s_tags, s_meta, s_cat, <<"n">>, s_zz}

Segments == {Segment(nm, ix) : nm \in SegmentNames, ix \in (-1)..MaxIndex}

\* the text of a segment and of a path
RenderSegment(seg) ==
    IF seg.index = -1 THEN seg.name
    ELSE seg.name \o <<"[">> \o NumberToString(seg.index) \o <<"]">>

RenderPath(segs) == join([i \in 1..Len(segs) |-> RenderSegment(segs[i])], <<".">>)

fm_abc ==
    Map(<<Entry(s_tags, List(<<Str(<<"a">>), Str(<<"b">>), Str(<<"c">>)>>)),
          Entry(s_meta, Map(<<Entry(s_cat, Str(<<"x">>)),
                              Entry(<<"n">>, Null),
                              Entry(s_tags, List(<<Map(<<Entry(s_cat, Num(7))>>), Null>>))>>)),
          Entry(s_cat, Str(s_daily))>>)
fm_a ==
    Map(<<Entry(s_tags, List(<<Str(<<"a">>)>>)), Entry(s_meta, List(<<>>)), Entry(<<"n">>, Null)>>)

FieldFrontmatters == {fm_abc, fm_a, Null}

\* texts that are no well-formed path
MalformedPaths ==
    { <<".">>, s_tags \o <<".",".">> \o s_cat, s_tags \o <<"[">>, s_tags \o <<"[","]">>,
      s_tags \o <<"[","x","]">>, <<"[","0","]">>, s_tags \o <<"[","0","]","x">>,
      s_tags \o <<"[","0","]","[","0","]">>, s_meta \o <<".">> }

FieldInputs ==
    [frontmatter : FieldFrontmatters,
     segs : SeqsUpTo(Segments, MaxPathLen),
     raw : {<<>>}]
    \cup [frontmatter : FieldFrontmatters, segs : {<<>>}, raw : MalformedPaths]

\* the field path of an input: the malformed text, or the rendered segments
FieldPathOf(in) == IF in.raw # <<>> THEN in.raw ELSE RenderPath(in.segs)

InitField ==
    /\ MachineAtRest
    /\ pin \in FieldInputs
    /\ pout = NotRun

ApplyGetFieldValue ==
    /\ ~pout.done
    /\ pout' = [done |-> TRUE, value |-> getFieldValue(pin.frontmatter, FieldPathOf(pin))]
    /\ UNCHANGED <<machine, pin>>

SpecField == InitField /\ [][ApplyGetFieldValue]_vars

-----------------------------------------------------------------------------
(* Properties of the rule evaluator and of getFieldValue *)

Bijections(n) == {f \in [1..n -> 1..n] : \A i, j \in 1..n : f[i] = f[j] => i = j}
Permute(q, f) == [i \in 1..Len(q) |-> q[f[i]]]

\* C5: evaluateRule is true iff the condition list is non-empty and, under AND,
\* every condition evaluates true, under OR, at least one does; with no
\* conditions it is false for both combinators; the order of the conditions
\* does not change the result.
C5_EvaluateRuleCombines ==
    pout.done =>
        LET cs == pin.rule.conditions
            holds(i) == evaluateCondition(cs[i], pin.frontmatter)
        IN /\ pout.result =
                (/\ Len(cs) > 0
                 /\ (pin.rule.logicOperator = "AND" => \A i \in 1..Len(cs) : holds(i))
                 /\ (pin.rule.logicOperator = "OR" => \E i \in 1..Len(cs) : holds(i)))
           /\ (Len(cs) = 0 => ~pout.result)
           /\ \A f \in Bijections(Len(cs)) :
                evaluateRule([pin.rule EXCEPT !.conditions = Permute(cs, f)],
                             pin.frontmatter) = pout.result

C5_Witness ==
    /\ pout.done
    /\ Len(pin.rule.conditions) = 2
    /\ pin.rule.logicOperator = "OR"
    /\ pout.results = <<FALSE, TRUE>>
    /\ pout.result

\* the sample fields that fm_daily does not hold: a missing key, an index out of
\* range, an explicit null leaf, a path through a scalar, a path through a list,
\* the empty path
AbsentInDaily ==
    { s_zz, s_tags \o <<"[","5","]">>, s_meta \o <<".","n">>,
      s_type \o <<".","x">>, s_tags \o <<".","x">>, <<>> }

\* C6: a condition whose field path resolves to absent evaluates false for the
\* match kinds exact, contains and regex, whatever the comparison value (the
\* empty string and patterns matching the empty string included).
C6_MissingFieldNeverMatches ==
    pout.done =>
        LET cs == pin.rule.conditions IN
        /\ \A i \in 1..Len(cs) :
              getFieldValue(pin.frontmatter, cs[i].field) = Null => ~pout.results[i]
        /\ \A i \in 1..Len(cs) :
              (pin.frontmatter = fm_daily /\ cs[i].field \in AbsentInDaily)
                  => ~pout.results[i]
        /\ ((\A i \in 1..Len(cs) : getFieldValue(pin.frontmatter, cs[i].field) = Null)
              => ~pout.result)

C6_Witness ==
    /\ pout.done
    /\ pin.frontmatter = fm_daily
    /\ pin.rule.conditions = <<Condition(s_meta \o <<".","n">>, <<>>, "contains")>>
    /\ pout.results = <<FALSE>>
    /\ ~pout.result

\* C7 (as claimed): a condition on a list-valued field is satisfied whenever one
\* element of the list satisfies the match kind against the condition value.
C7_AnyListElementMatches ==
    (/\ pout.done
     /\ isArray(pin.fieldValue)
     /\ \E i \in 1..Len(pin.fieldValue.items) :
            /\ pin.fieldValue.items[i] # Null
            /\ matchesValue(pin.fieldValue.items[i], pin.ruleValue, pin.matchType))
        => pout.result

\* a string with the case of its letters changed
UpperChar(c) ==
    IF \E i \in 1..26 : LowerLetters[i] = c
    THEN UpperLetters[CHOOSE i \in 1..26 : LowerLetters[i] = c]
    ELSE c
SwapChar(c) == IF UpperChar(c) # c THEN UpperChar(c) ELSE LowerChar(c)
Recase(str, how) ==
    [i \in 1..Len(str) |->
        CASE how = "upper" -> UpperChar(str[i])
          [] how = "lower" -> LowerChar(str[i])
          [] how = "swap" -> SwapChar(str[i])
          [] how = "first" -> IF i = 1 THEN SwapChar(str[i]) ELSE str[i]]
Recasings == {"upper", "lower", "swap", "first"}

\* a field value with the case of its strings changed
RecaseValue(value, how) ==
    CASE value.t = "str" -> Str(Recase(value.s, how))
      [] value.t = "list" ->
            List([i \in 1..Len(value.items) |->
                    IF value.items[i].t = "str"
                    THEN Str(Recase(value.items[i].s, how)) ELSE value.items[i]])
      [] OTHER -> value

SameIgnoringCase(x, y) ==
    Len(x) = Len(y) /\ \A i \in 1..Len(x) : UpperChar(x[i]) = UpperChar(y[i])

\* C8: for exact and contains the result does not change with the letter case of
\* the field value or of the condition value: exact is equality, contains the
\* substring test, both ignoring case; regex is tested ignoring case, and a
\* pattern that does not compile gives false.
C8_CaseInsensitive ==
    pout.done =>
        LET fv == pin.fieldValue
            rv == pin.ruleValue
            text == String(fv)
        IN /\ pin.matchType \in {"exact", "contains"} =>
                \A how \in Recasings :
                    /\ matchesValue(RecaseValue(fv, how), rv, pin.matchType) = pout.result
                    /\ matchesValue(fv, Recase(rv, how), pin.matchType) = pout.result
           /\ pin.matchType = "exact" => (pout.result = SameIgnoringCase(text, rv))
           /\ pin.matchType = "contains" =>
                (pout.result =
                    \E i \in 1..(Len(text) - Len(rv) + 1) :
                        SameIgnoringCase(SubSeq(text, i, i + Len(rv) - 1), rv))
           /\ pin.matchType = "regex" =>
                /\ (RegExpThrows(rv) => ~pout.result)
                /\ \A how \in Recasings :
                      matchesValue(RecaseValue(fv, how), rv, "regex") = pout.result

C8_Witness ==
    /\ pout.done
    /\ pin.fieldValue = Str(s_Daily)
    /\ pin.ruleValue = s_daily
    /\ pin.matchType = "exact"
    /\ pout.result

\* the value a well-formed path addresses: a plain segment looks up its key in
\* the current mapping, an indexed segment takes the list at its key and selects
\* the element, counted from zero; anything else is absent
Lookup(mapping, key) ==
    IF \E i \in 1..Len(mapping.entries) : mapping.entries[i].k = key
    THEN mapping.entries[CHOOSE i \in 1..Len(mapping.entries) :
                            mapping.entries[i].k = key].v
    ELSE Null

RECURSIVE Resolve(_, _)
Resolve(current, segs) ==
    IF segs = <<>> THEN current
    ELSE IF current.t # "map" THEN Null
    ELSE LET seg == Head(segs)
             v == Lookup(current, seg.name)
         IN IF seg.index = -1 THEN Resolve(v, Tail(segs))
            ELSE IF v.t = "list" /\ seg.index < Len(v.items)
                 THEN Resolve(v.items[seg.index + 1], Tail(segs))
                 ELSE Null

-----------------------------------------------------------------------------
(* setFieldValue applied to a document, then to the result with a second path, *)
(* and the metadata of the result read back                                     *)

s_body == <<"B","o","d","y">>

\* documents: the empty text, a body without metadata, flat and nested metadata
SetContents ==
    { << <<>> >>,
      <<s_body>>,
      <<Delimiter, s_type \o <<":"," ">> \o s_daily, Delimiter, s_body>>,
      <<Delimiter,
        s_meta \o <<":">>,
        <<" "," ">> \o s_cat \o <<":"," ","x">>,
        s_tags \o <<":">>,
        <<" "," ","-"," ","a">>,
        <<" "," ","-"," ","b">>,
        Delimiter>> }

SetPaths ==
    { s_type, s_zz, s_meta \o <<".">> \o s_cat, s_meta \o <<".">> \o s_zz,
      s_zz \o <<".">> \o s_cat \o <<".","n">>, s_tags \o <<".">> \o s_cat,
      s_type \o <<".">> \o s_cat, s_tags \o <<"[","0","]">> }

SetValues ==
    { Str(s_daily), Str(s_true), Str(<<"1","2">>), Str(<<>>), Str(<<"a"," ","b">>),
      Str(<<"a",":"," ","b">>), Str(<<" ","a">>), Str(<<"a","\"",":">>), Str(s_null),
      Num(7), Bool(FALSE), Null,
      List(<<Str(<<"a">>), Str(<<"b">>)>>), List(<<>>), List(<<Map(<<Entry(s_cat, Num(1))>>)>>),
      Map(<<Entry(s_cat, Str(<<"x">>))>>), Map(<<>>) }

\* a second assignment: none, or a value at another path
NoSecond == [path |-> <<>>, value |-> Null]
SetSeconds == {NoSecond} \cup [path : {s_cat, s_cat \o <<".","n">>}, value : {Str(<<"y">>)}]

SetInputs == [content : SetContents, path : SetPaths, value : SetValues, second : SetSeconds]

InitSet ==
    /\ MachineAtRest
    /\ pin \in SetInputs
    /\ pout = NotRun

ApplySetFieldValue ==
    /\ ~pout.done
    /\ LET first == setFieldValue(pin.content, pin.path, pin.value)
           text == IF pin.second = NoSecond THEN first
                   ELSE setFieldValue(first, pin.second.path, pin.second.value)
       IN pout' = [done |-> TRUE, text |-> text, frontmatter |-> parse(text)]
    /\ UNCHANGED <<machine, pin>>

SpecSet == InitSet /\ [][ApplySetFieldValue]_vars

\* C10 (as claimed): parsing the text setFieldValue returns and reading the same
\* path gives the value that was set, also after a set at an unrelated path.
C10_SetGetRoundTrip ==
    pout.done => getFieldValue(pout.frontmatter, pin.path) = pin.value

-----------------------------------------------------------------------------
(* The move orchestrator: vaults, rule lists, and the triggers' invocations *)

p_md == <<".","m","d">>
p_ix == <<"i","/","x">> \o p_md
p_ax == <<"a","/","x">> \o p_md
p_ax1 == <<"a","/","x"," ","1">> \o p_md
p_bx == <<"b","/","x">> \o p_md
p_x == <<"x">> \o p_md

\* a document that the rules on type and tags match, one that holds metadata
\* that no rule matches, and one without metadata
c_daily ==
    <<Delimiter, s_type \o <<":"," ">> \o s_daily, s_tags \o <<":">>,
      <<" "," ","-"," ">> \o s_meeting, Delimiter, s_body>>
c_note == <<Delimiter, s_type \o <<":"," ","n","o","t","e">>, Delimiter>>
c_plain == <<s_body>>

File(path, content) == [path |-> path, content |-> content]

\* vaults: a name taken in folder a; the name and its first alternative taken;
\* two documents of one name bound for the same folder; a file t that is no
\* folder and no markdown document; a document in the root
Vaults ==
    { [files |-> <<File(p_ix, c_daily), File(p_ax, c_plain)>>,
       folders |-> {Root, <<"i">>, <<"a">>}],
      [files |-> <<File(p_ix, c_daily), File(p_ax, c_plain), File(p_ax1, c_note)>>,
       folders |-> {Root, <<"i">>, <<"a">>}],
      [files |-> <<File(p_ix, c_daily), File(p_bx, c_daily)>>,
       folders |-> {Root, <<"i">>, <<"a">>, <<"b">>}],
      [files |-> <<File(p_ix, c_daily), File(<<"t">>, c_plain)>>,
       folders |-> {Root, <<"i">>}],
      [files |-> <<File(p_x, c_daily)>>,
       folders |-> {Root, <<"a">>}] }

\* target folders as the settings tab takes them: free text, or "/" and the
\* folder paths from the picker
TargetFolders ==
    { <<"a">>, <<"a","/">>, <<"/","a">>, <<>>, <<"/">>,
      <<"c","/","d">>, <<"t","/","u">>, <<"t">>, <<"i">> }

cond_daily == Condition(s_type, s_daily, "exact")
cond_meeting == Condition(s_tags, s_meeting, "contains")
cond_note == Condition(s_type, <<"n","o","t","e">>, "exact")
cond_zz == Condition(s_zz, <<>>, "contains")

\* rule lists: one rule; a disabled rule before a matching one; two matching
\* rules; a rule that does not match before one that does; no rule
RuleLists ==
    { <<Rule(TRUE, <<cond_daily>>, "AND", t, TRUE)>> : t \in TargetFolders }
    \cup { <<Rule(TRUE, <<cond_daily>>, "AND", t, FALSE)>> : t \in {<<"a">>, <<"c","/","d">>} }
    \cup { <<Rule(FALSE, <<cond_daily>>, "AND", <<"b">>, TRUE),
             Rule(TRUE, <<cond_meeting>>, "AND", t, TRUE)>> : t \in {<<"a">>, <<"i">>} }
    \cup { <<Rule(TRUE, <<cond_meeting>>, "AND", t, TRUE),
             Rule(TRUE, <<cond_daily>>, "AND", <<"b">>, TRUE)>> : t \in {<<"a">>, <<"i">>} }
    \cup { <<Rule(TRUE, <<cond_note, cond_zz>>, "AND", <<"b">>, TRUE),
             Rule(TRUE, <<cond_zz, cond_daily>>, "OR", t, TRUE)>> : t \in {<<"a">>, <<"i">>} }
    \cup { <<>> }

Settings ==
    [enabled : {TRUE}, rules : RuleLists]
    \cup [enabled : {FALSE}, rules : {<<Rule(TRUE, <<cond_daily>>, "AND", <<"a">>, TRUE)>>}]

Init ==
    /\ \E v \in Vaults :
        /\ files = v.files
        /\ folders = v.folders
        /\ renames = [d \in 1..Len(v.files) |-> 0]
    /\ settings \in Settings
    /\ inv = [i \in Slots |-> Idle]
    /\ notices = {}
    /\ scans = [i \in Slots |-> NoScan]
    /\ plugin = PluginOff
    /\ pin = <<>>
    /\ pout = NotRun

Next ==
    \/ \E i \in Slots, d \in 1..Len(files), silent \in BOOLEAN : Start(i, d, silent)
    \/ \E i \in Slots : AfterRead(i)
    \/ \E i \in Slots : CreateDone(i)
    \/ \E i \in Slots, sameOk \in BOOLEAN : RenameDone(i, sameOk)

Spec == Init /\ [][Next]_vars

-----------------------------------------------------------------------------
(* Properties of the move orchestrator *)

\* parse applied to the sample texts, computed once
ParsedSamples == [c \in {c_daily, c_note, c_plain} |-> parse(c)]

\* the first enabled rule that the metadata of a text satisfies, 0 when there
\* is none or the text holds no metadata
FirstEnabledMatch(content) ==
    LET frontmatter == IF content \in DOMAIN ParsedSamples THEN ParsedSamples[content]
                       ELSE parse(content)
        matching == IF frontmatter = Null THEN {}
                    ELSE {k \in 1..Len(settings.rules) :
                            /\ settings.rules[k].enabled
                            /\ evaluateRule(settings.rules[k], frontmatter)}
    IN IF matching = {} THEN 0
       ELSE CHOOSE k \in matching : \A m \in matching : k <= m

\* C1: an invocation uses the first enabled rule that matches and no other one,
\* also when that rule leads to a skip or to a failed move; a rename goes to
\* that rule's target folder, and an invocation issues at most one rename.
C1_FirstMatchWins ==
    \A i \in Slots :
        inv[i].pc \in {"creating", "renaming", "done"} =>
            LET r == inv[i]
                first == IF settings.enabled THEN FirstEnabledMatch(files[r.file].content)
                         ELSE 0
                folder == normalizePath(stripSlash(settings.rules[first].targetFolder))
            IN /\ r.rule = first
               /\ r.issued <= 1
               /\ (first = 0 => r.issued = 0 /\ r.result = "notMoved")
               /\ (r.pc = "renaming" => parentPath(r.pending) = folder)
               /\ (r.result = "moved" => parentPath(files[r.file].path) = folder)

C1_Witness ==
    \E i \in Slots :
        /\ inv[i].pc = "done"
        /\ Len(settings.rules) = 2
        /\ \A k \in 1..2 :
              /\ settings.rules[k].enabled
              /\ evaluateRule(settings.rules[k], parse(files[inv[i].file].content))
        /\ inv[i].result = "moved"
        /\ inv[i].rule = 1
        /\ parentPath(files[inv[i].file].path) = <<"a">>
        /\ renames[inv[i].file] = 1

\* C2 (as claimed): once an invocation has relocated a file, an invocation on
\* the same file that starts afterwards, with no other one under way, returns
\* false, issues no rename and raises no error.
C2_SecondRunIsNoOp ==
    \A j \in Slots :
        (/\ inv[j].pc = "done"
         /\ inv[j].prior >= 1
         /\ ~inv[j].busy)
            => /\ inv[j].result = "notMoved"
               /\ inv[j].issued = 0
               /\ ~inv[j].error

Occupied(path, fs, fd) == path \in fd \/ \E d \in 1..Len(fs) : fs[d].path = path

\* the name moveFile falls back to with counter k
Alternative(folder, path, k) ==
    normalizePath(folder \o <<"/">> \o fileBasename(path) \o <<" ">>
                  \o NumberToString(k) \o <<".">> \o fileExtension(path))

\* C3: when moveFile issues a rename, the destination is free; it is
\* folder/name when that path is free, and otherwise "basename k.extension" for
\* the smallest k >= 1 whose path is free; no two files ever share a path.
C3_CollisionSafeNaming ==
    [][ /\ \A i \in Slots :
            (inv[i].pc # "renaming" /\ inv'[i].pc = "renaming") =>
                LET path == files[inv'[i].file].path
                    folder == inv'[i].target
                    dest == inv'[i].pending
                    plain == normalizePath(folder \o <<"/">> \o fileName(path))
                    taken(q) == Occupied(q, files', folders')
                IN /\ ~taken(dest)
                   /\ parentPath(dest) = folder
                   /\ IF taken(plain)
                      THEN \E k \in 1..(Len(files) + 1) :
                              /\ dest = Alternative(folder, path, k)
                              /\ \A m \in 1..(k - 1) : taken(Alternative(folder, path, m))
                      ELSE dest = plain
        /\ \A d, e \in 1..Len(files) : d # e => files'[d].path # files'[e].path
      ]_vars

C3_Witness ==
    \E i \in Slots :
        /\ inv[i].pc = "renaming"
        /\ inv[i].from = p_ix
        /\ inv[i].pending = <<"a","/","x"," ","2">> \o p_md
        /\ \E d \in 1..Len(files) : files[d].path = p_ax1

\* C4 (as claimed), for a rule whose target folder is written in normal form:
\* when two invocations on a document overlap, the document ends in the rule's
\* target folder under its name after exactly one rename, one invocation
\* returns true and the other is a no-op that returns false without error.
C4_OverlapIsHarmless ==
    \A i, j \in Slots :
        (/\ i # j
         /\ inv[i].pc = "done" /\ inv[j].pc = "done"
         /\ inv[i].file = inv[j].file
         /\ inv[j].busy
         /\ inv[i].rule # 0 /\ inv[j].rule # 0
         /\ settings.rules[inv[i].rule].targetFolder = inv[i].target
         /\ inv[i].target \in folders
         /\ parentPath(inv[i].from) # inv[i].target
         /\ \A d \in 1..Len(files) :
                d # inv[i].file =>
                    files[d].path # inv[i].target \o <<"/">> \o fileName(inv[i].from))
            => /\ files[inv[i].file].path = inv[i].target \o <<"/">> \o fileName(inv[i].from)
               /\ renames[inv[i].file] = 1
               /\ {inv[i].result, inv[j].result} = {"moved", "notMoved"}
               /\ ~inv[i].error /\ ~inv[j].error
               /\ \A k \in {i, j} : inv[k].result = "notMoved" => inv[k].issued = 0

-----------------------------------------------------------------------------
(* AutoMovePlugin.loadSettings and migrateSettings                           *)
(* A stored rule is the object read from data.json: each key is absent       *)
(* (Undefined), null, or Present with its value.  The ids of rules and       *)
(* conditions play no part in evaluation and are left out.                   *)

Present(v) == [t |-> "present", v |-> v]

\* !x for a key that holds an array when present, for one that holds a string,
\* and for one that holds a name (a match type, a combinator: never empty)
falsyArray(x) == x \in {Undefined, Null}
falsyString(x) == x \in {Undefined, Null, Present(<<>>)}
falsyName(x) == x \in {Undefined, Null}

\* x || dflt, for a string and for a name
orDefault(x, dflt) == IF falsyString(x) THEN dflt ELSE x.v
orDefaultName(x, dflt) == IF falsyName(x) THEN dflt ELSE x.v

\* `key in rule`
inRule(x) == x # Undefined

StoredRule(conditions, logicOperator, field, value, matchType) ==
    [conditions |-> conditions, logicOperator |-> logicOperator,
     field |-> field, value |-> value, matchType |-> matchType]

\* the body of migrateSettings' loop for a rule that takes a legacy rule for one
\* without conditions
migrateRule_noLegacy(rule) ==
    LET r2 == IF falsyArray(rule.conditions)
              THEN [rule EXCEPT !.conditions = Present(<<>>)] ELSE rule
    IN IF falsyName(r2.logicOperator)
       THEN [r2 EXCEPT !.logicOperator = Present("AND")] ELSE r2

\* the body of migrateSettings' loop: the three ifs in turn
migrateRule(rule) ==
    LET r1 == IF falsyArray(rule.conditions) /\ inRule(rule.field) /\ inRule(rule.value)
              THEN [rule EXCEPT
                      !.conditions = Present(<<Condition(orDefault(rule.field, <<>>),
                                                         orDefault(rule.value, <<>>),
                                                         orDefaultName(rule.matchType, "exact"))>>),
                      !.logicOperator = Present("AND")]
              ELSE rule
        r2 == IF falsyArray(r1.conditions)
              THEN [r1 EXCEPT !.conditions = Present(<<>>)] ELSE r1
    IN IF falsyName(r2.logicOperator)
       THEN [r2 EXCEPT !.logicOperator = Present("AND")] ELSE r2

\* migrateSettings: the rules after the loop, and needsSave
migrateSettings(rules) ==
    LET migrated == [k \in 1..Len(rules) |-> migrateRule(rules[k])]
    IN [rules |-> migrated, needsSave |-> migrated # rules]

\* loadSettings: Object.assign({}, DEFAULT_SETTINGS, data) and migrateSettings;
\* data is null (nothing stored), or holds the stored rules
loadSettings(data) ==
    migrateSettings(IF data.t = "null" THEN <<>> ELSE data.v)

MaxStoredRules == 2     \* stored rules in one data.json

\* stored rules: legacy rules (with and without matchType, with empty strings),
\* rules with a part of the legacy keys, rules in the new shape, and rules with
\* conditions: null
StoredConditions ==
    {Undefined, Null, Present(<<>>), Present(<<cond_daily>>),
     Present(<<cond_daily, cond_meeting>>)}
StoredRules ==
    { StoredRule(c, l, f, v, m) :
        c \in StoredConditions,
        l \in {Undefined, Present("AND"), Present("OR")},
        f \in {Undefined, Present(s_type), Present(<<>>)},
        v \in {Undefined, Present(s_daily)},
        m \in {Undefined, Present("contains")} }

MigrateInputs ==
    {Null}
    \cup { Present(rules) : rules \in UNION { [1..n -> StoredRules] : n \in 0..(MaxStoredRules - 1) } }
    \cup { Present(rules) :
            rules \in { init \o <<a, b>> :
                          init \in [1..(MaxStoredRules - 2) -> {StoredRule(Null, Undefined, Undefined, Undefined, Undefined)}],
                          a \in {StoredRule(Undefined, Undefined, Present(s_type),
                                            Present(s_daily), Present("regex"))},
                          b \in StoredRules } }

InitMigrate ==
    /\ MachineAtRest
    /\ pin \in MigrateInputs
    /\ pout = NotRun

ApplyLoadSettings ==
    /\ ~pout.done
    /\ LET loaded == loadSettings(pin)
       IN pout' = [done |-> TRUE, rules |-> loaded.rules, needsSave |-> loaded.needsSave]
    /\ UNCHANGED <<machine, pin>>

SpecMigrate == InitMigrate /\ [][ApplyLoadSettings]_vars

\* the stored rules loadSettings was given
StoredOf(data) == IF data.t = "null" THEN <<>> ELSE data.v

\* C11: after loadSettings every rule has a condition list and a combinator AND
\* or OR; a legacy rule (field and value keys, no conditions) has exactly one
\* condition with the legacy field, value and match type ("exact" when the
\* legacy rule names none) and the combinator AND; a rule without conditions
\* and without the legacy keys has an empty condition list; a rule in the new
\* shape keeps its conditions and its combinator.
C11_MigrationNormalises ==
    pout.done =>
        /\ Len(pout.rules) = Len(StoredOf(pin))
        /\ \A k \in 1..Len(pout.rules) :
            LET old == StoredOf(pin)[k]
                new == pout.rules[k]
                legacy == old.conditions \in {Undefined, Null}
                            /\ old.field # Undefined /\ old.value # Undefined
            IN /\ new.conditions.t = "present"
               /\ new.logicOperator \in {Present("AND"), Present("OR")}
               /\ legacy =>
                    /\ new.conditions.v =
                         <<Condition(old.field.v, old.value.v,
                                     IF old.matchType = Undefined THEN "exact"
                                     ELSE old.matchType.v)>>
                    /\ new.logicOperator = Present("AND")
               /\ (old.conditions \in {Undefined, Null} /\ ~legacy) =>
                    new.conditions = Present(<<>>)
               /\ old.conditions.t = "present" =>
                    /\ new.conditions = old.conditions
                    /\ old.logicOperator # Undefined => new.logicOperator = old.logicOperator

\* a legacy rule and a rule in the new shape were loaded together
C11_Witness ==
    /\ pout.done
    /\ Len(pout.rules) = 2
    /\ pin.v[1] = StoredRule(Undefined, Undefined, Present(s_type), Present(s_daily),
                             Present("regex"))
    /\ pout.rules[1].conditions = Present(<<Condition(s_type, s_daily, "regex")>>)
    /\ pout.rules[1].logicOperator = Present("AND")
    /\ pin.v[2].conditions = Present(<<cond_daily, cond_meeting>>)
    /\ pin.v[2].logicOperator = Present("OR")
    /\ pout.rules[2] = pin.v[2]
    /\ pout.needsSave

-----------------------------------------------------------------------------
(* FileMover.moveFile: the destination folder is missing *)

\* the folder moveFile looks up for the rule that invocation r stopped at
TargetOf(r) == normalizePath(stripSlash(settings.rules[r.rule].targetFolder))

\* C12: when moveFile is called for a destination folder that does not exist
\* and createIfNotExist is false, it returns false at once: no folder is
\* created, no rename is issued, and the vault's folders and the paths of its
\* files are what they were before the call.
C12_MissingFolderNoCreate ==
    [][\A i \in Slots :
        (/\ inv[i].pc = "reading"
         /\ inv'[i].pc # "reading"
         /\ inv'[i].rule # 0
         /\ parentPath(files[inv[i].file].path) # stripSlash(settings.rules[inv'[i].rule].targetFolder)
         /\ ~settings.rules[inv'[i].rule].createFolderIfNotExist
         /\ getAbstractFileByPath(TargetOf(inv'[i]), files, folders) = "none")
            => /\ inv'[i].pc = "done"
               /\ inv'[i].result = "notMoved"
               /\ inv'[i].issued = 0
               /\ folders' = folders
               /\ files' = files
               /\ renames' = renames]_vars

\* moveFile was called for the missing folder c/d with createIfNotExist off:
\* it has returned false, shown its notice, and c and c/d do not exist
C12_Witness ==
    \E i \in Slots :
        /\ inv[i].pc = "done"
        /\ inv[i].rule = 1
        /\ ~settings.rules[1].createFolderIfNotExist
        /\ settings.rules[1].targetFolder = <<"c","/","d">>
        /\ inv[i].target = <<"c","/","d">>
        /\ inv[i].result = "notMoved"
        /\ inv[i].issued = 0
        /\ <<i, "Target folder does not exist">> \in notices
        /\ files[inv[i].file].path = inv[i].from
        /\ folders \cap {<<"c">>, <<"c","/","d">>} = {}

-----------------------------------------------------------------------------
(* FrontmatterParser.setFieldValue: nested paths *)

\* the keys of a dotted path
PathKeys(fieldPath) == split(fieldPath, ".")

\* the value at a chain of keys of a parsed document, Undefined when a key is
\* missing or the chain runs through a value that is no mapping
RECURSIVE ValueAt(_, _)
ValueAt(value, keys) ==
    IF Len(keys) = 0 THEN value
    ELSE IF ~isRecord(value) \/ ~hasKey(value, Head(keys)) THEN Undefined
    ELSE ValueAt(getKey(value, Head(keys)), Tail(keys))

\* C15 (as claimed): after setFieldValue with a path of two or more segments,
\* every proper prefix of the path holds a mapping and the value is at the
\* full path of the re-serialized metadata, whatever the intermediate segments
\* held before (nothing, a scalar, null, or a list).
C15_NestedSetReplaces ==
    (/\ pout.done
     /\ pin.second = NoSecond
     /\ pin.value = Str(s_daily)
     /\ Len(PathKeys(pin.path)) >= 2)
        => /\ \A n \in 1..(Len(PathKeys(pin.path)) - 1) :
                isRecord(ValueAt(pout.frontmatter, SubSeq(PathKeys(pin.path), 1, n)))
           /\ ValueAt(pout.frontmatter, PathKeys(pin.path)) = pin.value

-----------------------------------------------------------------------------
(* FileMover.createFolder: the folder chain *)

\* the p-th prefix of invocation r's target folder, and their number
Prefix(r, p) == currentPath(folderParts(r.target), p)
Prefixes(r) == Len(folderParts(r.target))

\* C16: createFolder creates the missing prefixes of the target path one by
\* one, in order, leaving the prefixes that are folders alone; when the move
\* succeeds every prefix of the target is a folder and the file is in the
\* target folder.  When a prefix of the target is a path that is no folder,
\* no folder exists at or below that prefix, the move does not succeed and the
\* file keeps its path.
C16_FolderChain ==
    [][\A i \in Slots :
        /\ (inv'[i].pc = "creating" /\ inv'[i] # inv[i]) =>
              /\ inv[i].pc \in {"reading", "creating"}
              /\ settings.rules[inv'[i].rule].createFolderIfNotExist
              /\ inv'[i].part \in 1..Prefixes(inv'[i])
              /\ inv'[i].pending = Prefix(inv'[i], inv'[i].part)
              /\ getAbstractFileByPath(inv'[i].pending, files', folders') = "none"
              /\ \A q \in 1..(inv'[i].part - 1) : Prefix(inv'[i], q) \in folders'
              /\ inv[i].pc = "creating" => inv'[i].part > inv[i].part
        /\ (inv[i].pc = "creating" /\ inv'[i] # inv[i]) =>
              /\ folders' \in {folders, folders \cup {inv[i].pending}}
              /\ inv'[i].pc = "renaming" =>
                    \A q \in 1..Prefixes(inv[i]) : Prefix(inv[i], q) \in folders'
        /\ (inv[i].pc = "renaming" /\ inv'[i].result = "moved") =>
              /\ \A q \in 1..Prefixes(inv[i]) : Prefix(inv[i], q) \in folders'
              /\ parentPath(files'[inv[i].file].path) = inv[i].target
        /\ \A p \in 1..Prefixes(inv'[i]) :
              (/\ inv'[i].rule # 0
               /\ getAbstractFileByPath(Prefix(inv'[i], p), files', folders') = "file")
                  => /\ \A q \in p..Prefixes(inv'[i]) : Prefix(inv'[i], q) \notin folders'
                     /\ inv'[i].result = "notMoved"
                     /\ inv'[i].issued = 0
                     /\ files'[inv'[i].file].path = inv'[i].from]_vars

\* the chain c, c/d was created for a move that succeeded
C16_Witness ==
    \E i \in Slots :
        /\ inv[i].pc = "done"
        /\ inv[i].result = "moved"
        /\ inv[i].target = <<"c","/","d">>
        /\ inv[i].from = p_ix
        /\ files[inv[i].file].path = <<"c","/","d","/","x">> \o p_md
        /\ {<<"c">>, <<"c","/","d">>} \subseteq folders
        /\ settings.rules[inv[i].rule].createFolderIfNotExist

-----------------------------------------------------------------------------
(* Scans: scanAllFiles and batchMoveFiles over a vault *)

\* the vault the scans run on: two documents of one name that the rules match,
\* and a file t that is no folder and no markdown document
ScanVault ==
    [files |-> <<File(p_ix, c_daily), File(p_bx, c_daily), File(<<"t">>, c_plain)>>,
     folders |-> {Root, <<"i">>, <<"a">>, <<"b">>}]

\* what batchMoveFiles is given: the two documents, and a folder chain that
\* does not exist
BatchLists == { <<1, 2>> }
BatchTargets == { <<"c","/","d">> }

\* settings for the scans: a folder that exists, a folder chain to create, a
\* missing folder that is not to be created, a folder below a file, and the
\* plugin switched off
ScanSettings ==
    [enabled : {TRUE},
     rules : { <<Rule(TRUE, <<cond_daily>>, "AND", <<"a">>, TRUE)>>,
               <<Rule(TRUE, <<cond_daily>>, "AND", <<"c","/","d">>, TRUE)>>,
               <<Rule(TRUE, <<cond_daily>>, "AND", <<"c","/","d">>, FALSE)>>,
               <<Rule(TRUE, <<cond_daily>>, "AND", <<"t","/","u">>, TRUE)>> }]
    \cup [enabled : {FALSE}, rules : {<<Rule(TRUE, <<cond_daily>>, "AND", <<"a">>, TRUE)>>}]

InitScan ==
    /\ files = ScanVault.files
    /\ folders = ScanVault.folders
    /\ renames = [d \in 1..Len(ScanVault.files) |-> 0]
    /\ settings \in ScanSettings
    /\ inv = [i \in Slots |-> Idle]
    /\ notices = {}
    /\ scans = [i \in Slots |-> NoScan]
    /\ plugin = PluginOff
    /\ pin = <<>>
    /\ pout = NotRun

\* the scan command starts a scan (the interval timer calls the same function);
\* batchMoveFiles is
\* called; the command "move current file" calls autoMoveFile(file); the host
\* resolves what the invocations await
NextScan ==
    \/ \E i \in Slots : scanAllFiles(i, "command")
    \/ \E i \in Slots, list \in BatchLists, t \in BatchTargets, c \in BOOLEAN :
            batchMoveFiles(i, list, t, c)
    \/ \E i \in Slots, d \in 1..Len(files) : Start(i, d, FALSE)
    \/ \E i \in Slots : AfterRead(i)
    \/ \E i \in Slots : CreateDone(i)
    \/ \E i \in Slots, sameOk \in BOOLEAN : RenameDone(i, sameOk)

SpecScan == InitScan /\ [][NextScan]_vars

\* how many of the moves of a scan returned true
Moved(sc) == Cardinality({n \in 1..Len(sc.returned) : sc.returned[n]})

\* C13: scanAllFiles and batchMoveFiles call the move for every file of their
\* list once, in list order, whatever the earlier moves returned; a move that
\* fails returns false to the loop; and movedCount is the number of moves that
\* returned true.
C13_BatchAttemptsAll ==
    \A i \in Slots :
        LET sc == scans[i] IN
        sc.pc # "idle" =>
            /\ sc.attempted = SubSeq(sc.list, 1, Len(sc.attempted))
            /\ sc.movedCount = Moved(sc)
            /\ sc.pc = "running" =>
                    /\ sc.k \in 1..Len(sc.list)
                    /\ Len(sc.attempted) = sc.k
                    /\ Len(sc.returned) = sc.k - 1
                    /\ InFlight(inv[i])
                    /\ inv[i].file = sc.list[sc.k]
            /\ sc.pc = "done" =>
                    /\ sc.attempted = sc.list
                    /\ Len(sc.returned) = Len(sc.list)
                    /\ sc.kind = "scan" => <<i, "Scan complete">> \in notices

\* a batch of two files has gone through both although the move of the first
\* failed with an error; it counts the one move that returned true
C13_Witness ==
    \E i \in Slots :
        /\ scans[i].pc = "done"
        /\ scans[i].kind = "batch"
        /\ Len(scans[i].list) = 2
        /\ scans[i].returned = <<FALSE, TRUE>>
        /\ scans[i].movedCount = 1
        /\ <<i, "Error moving file">> \in notices

\* C17 (as claimed): at most one moveFile started by scanAllFiles is in flight.
C17_ScansSequential ==
    Cardinality({ i \in Slots : /\ scans[i].kind = "scan"
                                /\ scans[i].pc = "running"
                                /\ inv[i].pc \in {"creating", "renaming"} }) <= 1

\* what moveFile and autoMoveFile show for one file
PerFileNotices ==
    {"Moved", "Error moving file", "Target folder does not exist", "Target is not a folder"}

\* C18 (as claimed): the moves of a scan (autoMoveFile called with silent =
\* true) show no notice for a file, only "Scanning" and "Scan complete" are
\* shown; an interactive invocation whose move fails shows a notice.
C18_SilentFailures ==
    /\ \A n \in notices :
            scans[n[1]].kind = "scan" => n[2] \in {"Scanning", "Scan complete"}
    /\ \A i \in Slots :
            (/\ scans[i].kind = "none"
             /\ inv[i].pc = "done"
             /\ ~inv[i].silent
             /\ inv[i].rule # 0
             /\ inv[i].target # <<>>
             /\ inv[i].result = "notMoved")
                => \E k \in PerFileNotices \ {"Moved"} : <<i, k>> \in notices

-----------------------------------------------------------------------------
(* The plugin's triggers: listeners, the debounced save trigger, the interval *)
(* timer, the settings tab and unload                                         *)

DefaultIntervalMinutes == 30

\* window.setInterval returns an id that no set interval has
FreshTimer(timers) == CHOOSE id \in 1..(Cardinality(timers) + 1) : id \notin timers

\* setupInterval(), with the settings st as they are when it runs
setupInterval(pl, st) ==
    LET cleared == IF pl.intervalId # 0
                   THEN [pl EXCEPT !.timers = @ \ {pl.intervalId}, !.intervalId = 0]
                   ELSE pl
    IN IF st.triggerOnInterval /\ st.intervalMinutes > 0
       THEN [cleared EXCEPT !.intervalId = FreshTimer(cleared.timers),
                            !.timers = @ \cup {FreshTimer(cleared.timers)}]
       ELSE cleared

\* registerEventListeners(), as onload runs it once with the loaded settings
registerEventListeners(pl, st) ==
    [pl EXCEPT !.onModify = st.triggerOnSave,
               !.onFileOpen = st.triggerOnSwitch]

MaxToggles == 2         \* changes made in the settings tab in one behaviour

\* the slots that the pending timers will take
Reserved == (IF plugin.debounced.armed THEN 1 ELSE 0) + Cardinality(plugin.opened)
RoomForOne == Cardinality({i \in Slots : SlotFree(i)}) > Reserved

\* a toggle of the settings tab is switched: the setting is set and
\* saveSettings is called, which awaits saveData
Toggle(name) ==
    /\ plugin.loaded
    /\ plugin.toggles < MaxToggles
    /\ settings' = [settings EXCEPT ![name] = ~@]
    /\ plugin' = [plugin EXCEPT !.saving = @ + 1, !.toggles = @ + 1]
    /\ UNCHANGED <<files, folders, inv, renames, notices, scans, pin, pout>>

\* saveData resolves: saveSettings goes on with setupInterval
SaveDone ==
    /\ plugin.saving > 0
    /\ plugin' = setupInterval([plugin EXCEPT !.saving = @ - 1], settings)
    /\ UNCHANGED <<files, folders, settings, inv, renames, notices, scans, pin, pout>>

\* the editor-change listener: it sets the interval up when the setting is on
\* and no interval is held
EditorChange ==
    /\ plugin.loaded
    /\ settings.triggerOnInterval /\ plugin.intervalId = 0
    /\ plugin' = setupInterval(plugin, settings)
    /\ UNCHANGED <<files, folders, settings, inv, renames, notices, scans, pin, pout>>

\* the vault reports that markdown document d was modified: the listener, when
\* attached, calls autoMoveDebounced(file), which keeps the file of the latest
\* call and starts its timer unless it runs
Modify(d) ==
    /\ IsMarkdown(files[d].path)
    /\ plugin.debounced.armed \/ RoomForOne
    /\ plugin' = [plugin EXCEPT
                    !.modified = @ \cup {d},
                    !.debounced = IF plugin.onModify THEN [armed |-> TRUE, file |-> d] ELSE @]
    /\ UNCHANGED <<files, folders, settings, inv, renames, notices, scans, pin, pout>>

\* the timer of autoMoveDebounced fires: autoMoveFile(file) is called with the
\* file of the latest call
DebounceFire ==
    /\ plugin.debounced.armed
    /\ \E i \in Slots :
        /\ NextFree(i)
        /\ inv' = [inv EXCEPT ![i] =
                     autoMoveFileCall(plugin.debounced.file, FALSE, inv, files, renames)]
    /\ plugin' = [plugin EXCEPT !.debounced = [armed |-> FALSE, file |-> 0],
                                !.modified = @ \ {plugin.debounced.file}]
    /\ UNCHANGED <<files, folders, settings, renames, notices, scans, pin, pout>>

\* the workspace reports that markdown document d was opened: the listener
\* starts a timeout
FileOpen(d) ==
    /\ plugin.onFileOpen
    /\ IsMarkdown(files[d].path)
    /\ d \notin plugin.opened
    /\ RoomForOne
    /\ plugin' = [plugin EXCEPT !.opened = @ \cup {d}]
    /\ UNCHANGED <<files, folders, settings, inv, renames, notices, scans, pin, pout>>

\* the timeout of a file-open fires: autoMoveFile(file) is called
OpenFire(d) ==
    /\ d \in plugin.opened
    /\ \E i \in Slots :
        /\ NextFree(i)
        /\ inv' = [inv EXCEPT ![i] = autoMoveFileCall(d, FALSE, inv, files, renames)]
    /\ plugin' = [plugin EXCEPT !.opened = @ \ {d}, !.modified = @ \ {d}]
    /\ UNCHANGED <<files, folders, settings, renames, notices, scans, pin, pout>>

\* a window interval fires: scanAllFiles() is called
IntervalTick(id) ==
    /\ id \in plugin.timers
    /\ RoomForOne
    /\ \E i \in Slots : scanAllFiles(i, "interval")

\* onunload(): the interval the plugin holds is cleared; the host detaches the
\* listeners registered with registerEvent
Unload ==
    /\ plugin.loaded
    /\ plugin' = [plugin EXCEPT !.loaded = FALSE, !.onModify = FALSE, !.onFileOpen = FALSE,
                                !.timers = IF plugin.intervalId # 0
                                           THEN @ \ {plugin.intervalId} ELSE @]
    /\ UNCHANGED <<files, folders, settings, inv, renames, notices, scans, pin, pout>>

\* the vault the triggers act on: a document the rule matches, whose target
\* folder is yet to be created, and one without metadata
TrigVault ==
    [files |-> <<File(p_ix, c_daily), File(<<"i","/","y">> \o p_md, c_plain)>>,
     folders |-> {Root, <<"i">>}]

TrigSettings ==
    [enabled : {TRUE},
     rules : {<<Rule(TRUE, <<cond_daily>>, "AND", <<"a">>, TRUE)>>},
     triggerOnSave : BOOLEAN, triggerOnSwitch : BOOLEAN, triggerOnInterval : BOOLEAN,
     intervalMinutes : {DefaultIntervalMinutes}]

\* the state after onload: the settings are loaded, the listeners registered
\* and the interval set up as the loaded settings say
InitTrig ==
    /\ files = TrigVault.files
    /\ folders = TrigVault.folders
    /\ renames = [d \in 1..Len(TrigVault.files) |-> 0]
    /\ settings \in TrigSettings
    /\ inv = [i \in Slots |-> Idle]
    /\ notices = {}
    /\ scans = [i \in Slots |-> NoScan]
    /\ plugin = setupInterval(registerEventListeners(PluginOff, settings), settings)
    /\ pin = <<>>
    /\ pout = NotRun

NextTrig ==
    \/ \E name \in {"triggerOnSave", "triggerOnSwitch", "triggerOnInterval"} : Toggle(name)
    \/ SaveDone
    \/ EditorChange
    \/ \E d \in 1..Len(files) : Modify(d)
    \/ DebounceFire
    \/ \E d \in 1..Len(files) : FileOpen(d)
    \/ \E d \in 1..Len(files) : OpenFire(d)
    \/ \E id \in plugin.timers : IntervalTick(id)
    \/ Unload
    \/ \E i \in Slots : AfterRead(i)
    \/ \E i \in Slots : CreateDone(i)
    \/ \E i \in Slots, sameOk \in BOOLEAN : RenameDone(i, sameOk)

SpecTrig == InitTrig /\ [][NextTrig]_vars

\* the save trigger alone: the plugin was loaded with 'Trigger on save' on and
\* the other triggers off, the settings tab is left alone, and the documents
\* carry no metadata, so that autoMoveFile reads them and returns
SaveVault ==
    [files |-> <<File(p_ix, c_plain), File(<<"i","/","y">> \o p_md, c_plain),
                 File(<<"i","/","z">> \o p_md, c_plain)>>,
     folders |-> {Root, <<"i">>}]

InitSave ==
    /\ files = SaveVault.files
    /\ folders = SaveVault.folders
    /\ renames = [d \in 1..Len(SaveVault.files) |-> 0]
    /\ settings \in {st \in TrigSettings :
                        st.triggerOnSave /\ ~st.triggerOnSwitch /\ ~st.triggerOnInterval}
    /\ inv = [i \in Slots |-> Idle]
    /\ notices = {}
    /\ scans = [i \in Slots |-> NoScan]
    /\ plugin = setupInterval(registerEventListeners(PluginOff, settings), settings)
    /\ pin = <<>>
    /\ pout = NotRun

NextSave ==
    \/ \E d \in 1..Len(files) : Modify(d)
    \/ DebounceFire
    \/ \E i \in Slots : AfterRead(i)

\* the host fires the timer that is set and completes every read it was asked
\* for; it owes the plugin no event
SpecSave ==
    /\ InitSave /\ [][NextSave]_vars
    /\ WF_vars(DebounceFire)
    /\ WF_vars(\E i \in Slots : AfterRead(i))

\* the setting is off, or on, and every saveSettings call has completed
SavedOff(name) == ~settings[name] /\ plugin.saving = 0
SavedOn(name) == settings[name] /\ plugin.saving = 0

\* C14: save-triggered and switch-triggered moves follow the current trigger
\* settings after any sequence of settings changes: with 'Trigger on save'
\* (resp. 'Trigger on file switch') off and saved, a modify (resp. file-open)
\* event makes no call of the debounced autoMoveFile (resp. starts no timeout
\* for autoMoveFile); with 'Trigger on save' on and saved, a modify event on a
\* markdown document of the loaded plugin does call the debounced autoMoveFile
\* with that document.
C14_TriggersFollowSettings ==
    [][ /\ (plugin'.debounced.armed /\ plugin'.debounced # plugin.debounced)
            => ~SavedOff("triggerOnSave")
        /\ (plugin'.opened \ plugin.opened # {})
            => ~SavedOff("triggerOnSwitch")
        /\ \A d \in 1..Len(files) :
            (/\ d \notin plugin.modified /\ d \in plugin'.modified
             /\ plugin.loaded /\ SavedOn("triggerOnSave"))
            => plugin'.debounced = [armed |-> TRUE, file |-> d] ]_vars

\* C19: disabling the interval prevents new scans without cancelling running
\* ones: with triggerOnInterval off, or the plugin unloaded, and every
\* saveSettings call completed, no interval-triggered scanAllFiles starts; and a
\* step that changes the settings, unloads the plugin or clears a timer leaves
\* every scan and every invocation as it was.
C19_IntervalOffStopsScans ==
    [][ /\ \A i \in Slots :
            (scans[i].pc = "idle" /\ scans'[i].trigger = "interval")
            => ~((~settings.triggerOnInterval \/ ~plugin.loaded) /\ plugin.saving = 0)
        /\ (settings' # settings \/ plugin'.loaded # plugin.loaded
                \/ plugin'.timers # plugin.timers)
            => (scans' = scans /\ inv' = inv) ]_vars

\* C20: no save event is lost to debouncing: with the modify listener attached,
\* every markdown document that got a modify event is eventually evaluated by an
\* autoMoveFile invocation started after its last modify event (an invocation
\* of the debounced function or of a file-open timeout for it, or any scan).
C20_NoSaveEventLost ==
    \A d \in 1..Len(SaveVault.files) :
        (plugin.onModify /\ d \in plugin.modified)
            ~> (d \notin plugin.modified \/ \E i \in Slots : scans[i].pc # "idle")

-----------------------------------------------------------------------------
(* The interval timer over the plugin's life: onload, the save that           *)
(* migrateSettings starts, the settings tab, editor changes and onunload      *)

\* data.json as onload finds it: nothing stored, a rule in the new shape, or a
\* legacy rule that migrateSettings rewrites; with the stored trigger settings
LifeData ==
    {Null,
     Present(<<StoredRule(Present(<<cond_daily>>), Present("AND"),
                          Undefined, Undefined, Undefined)>>),
     Present(<<StoredRule(Undefined, Undefined, Present(s_type), Present(s_daily),
                          Undefined)>>)}
LifeInputs ==
    [data : LifeData, triggerOnSave : {TRUE}, triggerOnSwitch : {FALSE},
     triggerOnInterval : BOOLEAN]

\* onload has been called and awaits loadData
InitLife ==
    /\ files = <<>>
    /\ folders = {Root}
    /\ renames = <<>>
    /\ settings = <<>>
    /\ inv = [i \in Slots |-> Idle]
    /\ notices = {}
    /\ scans = [i \in Slots |-> NoScan]
    /\ plugin = [PluginOff EXCEPT !.loaded = FALSE]
    /\ pin \in LifeInputs
    /\ pout = NotRun

\* loadData resolves: loadSettings assigns the settings and migrateSettings
\* rewrites the rules and, when one changed, calls saveSettings without
\* awaiting it; onload goes on with registerEventListeners and setupInterval
OnloadDone ==
    /\ ~pout.done
    /\ LET loaded == loadSettings(pin.data)
           st == [enabled |-> TRUE, rules |-> loaded.rules,
                  triggerOnSave |-> pin.triggerOnSave,
                  triggerOnSwitch |-> pin.triggerOnSwitch,
                  triggerOnInterval |-> pin.triggerOnInterval,
                  intervalMinutes |-> DefaultIntervalMinutes]
           started == [PluginOff EXCEPT !.saving = IF loaded.needsSave THEN 1 ELSE 0]
       IN /\ settings' = st
          /\ plugin' = setupInterval(registerEventListeners(started, st), st)
          /\ pout' = [done |-> TRUE, rules |-> loaded.rules, needsSave |-> loaded.needsSave]
    /\ UNCHANGED <<files, folders, inv, renames, notices, scans, pin>>

NextLife ==
    \/ OnloadDone
    \/ \E name \in {"triggerOnSave", "triggerOnSwitch", "triggerOnInterval"} : Toggle(name)
    \/ SaveDone
    \/ EditorChange
    \/ Unload

SpecLife == InitLife /\ [][NextLife]_vars

\* onunload has run
Unloaded == pout.done /\ ~plugin.loaded

\* C21: no interval timer is leaked: in every reachable state at most one
\* interval timer is set and it is the one intervalId holds, and after onunload
\* no interval timer is set.
C21_NoIntervalLeak ==
    /\ Cardinality(plugin.timers) <= 1
    /\ plugin.timers # {} => plugin.timers = {plugin.intervalId}
    /\ Unloaded => plugin.timers = {}

-----------------------------------------------------------------------------
(* Conservation of documents and faithfulness of the result *)

\* invocation i returns in this step
Returns(i) == inv[i].pc # "done" /\ inv'[i].pc = "done"

====
